---- MODULE Spec2Model ----
(***************************************************************************)
(* FestCal: the event store (DatabaseHandler over the events table), the  *)
(* in-memory Deduplicator, the FrankfurtScraper, the validators and the    *)
(* two runners, as state machines.                                         *)
(*                                                                         *)
(* Text values are tuples of one-character strings, so that lower(),       *)
(* strip() and difflib's matching can be computed; instants are integers.  *)
(***************************************************************************)
EXTENDS Integers, Sequences, FiniteSets, TLC

VARIABLES
    db,        \* the events table as committed: rows in insertion order
    clock,     \* the wall clock datetime.utcnow() reads
    used,      \* events handed to add_event and add_events so far; runs of a runner
    last,      \* the most recent write call: operation, arguments, outcome
    prev,      \* the write call before `last`
    result,    \* what the most recent read call returned
    sess,      \* concurrent add_events calls: each caller's Session and loop position
    lock,      \* the caller whose transaction holds SQLite's write lock, or 0
    db0,       \* the table when the concurrent calls began
    batch,     \* the list handed to the Deduplicator
    unique_events  \* what deduplicate has returned: for the list, then for its result

storeVars == <<db, clock, used, last, prev, result>>

concVars == <<sess, lock, db0>>

dedupVars == <<batch, unique_events>>
storeRest == <<db, clock, used, last, prev>>

vars == <<storeVars, concVars, dedupVars>>

----------------------------------------------------------------------------
(* Bounds of the model *)

MaxEvents == 3     \* events handed to the store in one run, over all its calls
MaxRows == 3       \* events loaded into the table that get_events is asked about
MaxConcBatch == 2  \* longest batch of a concurrent add_events call
MaxBatch == 3      \* longest batch handed to deduplicate
MaxTokens == 3     \* most date tokens in the text of one event card

----------------------------------------------------------------------------
(* Python values *)

\* None in a text attribute; no text of the program is this tuple, whose one
\* element is no single character
NoneStr == <<"None">>

\* None in a datetime attribute; instants are >= 0
NoneDT == 0 - 1

\* `not s` for an Optional[str]
Falsy(s) == s = NoneStr \/ s = <<>>

Min(a, b) == IF a <= b THEN a ELSE b

Abs(n) == IF n < 0 THEN 0 - n ELSE n

SeqSet(s) == {s[k] : k \in DOMAIN s}

\* the subsequence of s at the positions of S, in order
RECURSIVE Pick(_, _, _)
Pick(s, S, k) ==
    IF k > Len(s) THEN <<>>
    ELSE (IF k \in S THEN <<s[k]>> ELSE <<>>) \o Pick(s, S, k + 1)

----------------------------------------------------------------------------
(* The Event model *)

\* the attributes add_event and add_events copy onto an existing row
update_fields ==
    {"title", "description", "start_datetime", "end_datetime",
     "location", "address", "city", "postal_code",
     "latitude", "longitude", "category", "organizer",
     "url", "image_url", "price", "source"}

\* Event(...): a transient Event as a scraper builds it; the attributes a
\* scraper does not set are None, the timestamps are left to the column defaults
Event(id, title, start, end, city, category, price, source) ==
    [id |-> id, title |-> title, description |-> NoneStr,
     start_datetime |-> start, end_datetime |-> end,
     location |-> NoneStr, address |-> NoneStr, city |-> city,
     postal_code |-> NoneStr, latitude |-> NoneDT, longitude |-> NoneDT,
     category |-> category, organizer |-> NoneStr, url |-> NoneStr,
     image_url |-> NoneStr, price |-> price, source |-> source,
     created_at |-> NoneDT, updated_at |-> NoneDT]

----------------------------------------------------------------------------
(* The events table and the statements a Session sends to it *)

\* (mutant) the lookup finds nothing
query_firstMisses(tbl, id) == <<>>

\* session.query(Event).filter_by(id=...).first(): <<>> for None, <<row>> else
query_first(tbl, id) ==
    LET S == {k \in DOMAIN tbl : tbl[k].id = id}
    IN  IF S = {} THEN <<>>
        ELSE <<tbl[CHOOSE k \in S : \A m \in S : k <= m]>>

\* Event.id is the primary key; title, start_datetime and source are
\* nullable=False: the INSERT of such a row raises IntegrityError
InsertOK(tbl, ev) ==
    /\ ev.id # NoneStr
    /\ query_first(tbl, ev.id) = <<>>
    /\ ev.title # NoneStr
    /\ ev.start_datetime # NoneDT
    /\ ev.source # NoneStr

\* the INSERT of a pending Event: created_at and updated_at take their column
\* default, datetime.utcnow, read once for each column (t1, then t2)
Insert(tbl, ev, t1, t2) ==
    Append(tbl, [ev EXCEPT
        !.created_at = IF ev.created_at = NoneDT THEN t1 ELSE ev.created_at,
        !.updated_at = IF ev.updated_at = NoneDT THEN t2 ELSE ev.updated_at])

\* (mutant) update_fields without "price": the price of a row is never updated
AssignedKeepsPrice(loaded, ev, upd) ==
    [f \in DOMAIN loaded |->
        IF f \in update_fields \ {"price"} THEN ev[f]
        ELSE IF f = "updated_at" THEN upd
        ELSE loaded[f]]

\* the attribute values of a loaded row after the setattr loop and the
\* assignment of updated_at
Assigned(loaded, ev, upd) ==
    [f \in DOMAIN loaded |->
        IF f \in update_fields THEN ev[f]
        ELSE IF f = "updated_at" THEN upd
        ELSE loaded[f]]

\* the attributes whose value differs from the one loaded: the unit of work
\* writes these columns and no others
Changed(loaded, new) == {f \in DOMAIN loaded : new[f] # loaded[f]}

\* the UPDATE of a dirty row fails when the row is gone (StaleDataError) or a
\* nullable=False column becomes NULL (IntegrityError)
UpdateOK(tbl, u) ==
    LET new == Assigned(u.loaded, u.ev, u.upd)
    IN  \/ Changed(u.loaded, new) = {}
        \/ /\ query_first(tbl, u.id) # <<>>
           /\ new.title # NoneStr
           /\ new.start_datetime # NoneDT
           /\ new.source # NoneStr

\* (mutant) the row found is deleted and never written back
UpdateDropsRow(tbl, u, t) ==
    Pick(tbl, {k \in DOMAIN tbl : tbl[k].id # u.id}, 1)

\* UPDATE events SET <changed columns> WHERE id = ...; a statement that does
\* not set updated_at itself takes the column's onupdate, utcnow at the flush
Update(tbl, u, t) ==
    LET new == Assigned(u.loaded, u.ev, u.upd)
        ch  == Changed(u.loaded, new)
    IN  [k \in DOMAIN tbl |->
            IF tbl[k].id # u.id \/ ch = {} THEN tbl[k]
            ELSE [f \in DOMAIN tbl[k] |->
                    IF f \in ch THEN new[f]
                    ELSE IF f = "updated_at" THEN t
                    ELSE tbl[k][f]]]

\* whether the UPDATE leaves updated_at to the column's onupdate
OnUpdate(u) ==
    LET ch == Changed(u.loaded, Assigned(u.loaded, u.ev, u.upd))
    IN  ch # {} /\ "updated_at" \notin ch

\* what the session holds unflushed between two queries
NoPend == [kind |-> "none"]

PendInsert(ev) == [kind |-> "insert", ev |-> ev]

PendUpdate(loaded, ev, upd) ==
    [kind |-> "update", id |-> loaded.id, loaded |-> loaded, ev |-> ev, upd |-> upd]

\* the clock one utcnow() read later
Tick(t) == t + 1

\* Session autoflush (before a query, and in commit): the pending INSERT or
\* UPDATE is sent; [ok, tbl, t], ok false when the statement raises
Flush(view, pend, t) ==
    CASE pend.kind = "none" -> [ok |-> TRUE, tbl |-> view, t |-> t]
      [] pend.kind = "insert" ->
            IF InsertOK(view, pend.ev)
            THEN [ok |-> TRUE, tbl |-> Insert(view, pend.ev, t, Tick(t)),
                  t |-> Tick(Tick(t))]
            ELSE [ok |-> FALSE, tbl |-> view, t |-> t]
      [] pend.kind = "update" ->
            IF UpdateOK(view, pend)
            THEN [ok |-> TRUE, tbl |-> Update(view, pend, t),
                  t |-> IF OnUpdate(pend) THEN Tick(t) ELSE t]
            ELSE [ok |-> FALSE, tbl |-> view, t |-> t]

\* (mutant) count += 1 for every event, also for the ones found
UpsertCountsUpdates(view, ev, t) ==
    LET existing == query_first(view, ev.id)
    IN  IF existing # <<>>
        THEN [pend |-> PendUpdate(existing[1], ev, t), t |-> Tick(t), added |-> 1]
        ELSE [pend |-> PendInsert(ev), t |-> t, added |-> 1]

\* the body of the loop for one event, after the autoflush: look the id up,
\* then either copy the fields onto the row found and set updated_at, or add
\* the event to the session
\* (mutant) the lookup also finds a row of another id that has the start,
\* the city and the source of the event
UpsertMatchesStart(view, ev, t) ==
    LET same == {k \in DOMAIN view : view[k].id = ev.id}
        alike == {k \in DOMAIN view :
                     /\ view[k].start_datetime = ev.start_datetime
                     /\ view[k].city = ev.city
                     /\ view[k].source = ev.source}
        found == IF same # {} THEN same ELSE alike
    IN  IF found # {}
        THEN [pend |-> PendUpdate(view[CHOOSE k \in found : TRUE], ev, t),
              t |-> Tick(t), added |-> 0]
        ELSE [pend |-> PendInsert(ev), t |-> t, added |-> 1]

Upsert(view, ev, t) ==
    LET existing == query_first(view, ev.id)
    IN  IF existing # <<>>
        THEN [pend |-> PendUpdate(existing[1], ev, t), t |-> Tick(t), added |-> 0]
        ELSE [pend |-> PendInsert(ev), t |-> t, added |-> 1]

\* (mutant) an event whose id an earlier event of the batch carries is skipped
RECURSIVE RunFirstOfIdWins(_, _, _, _, _, _)
RunFirstOfIdWins(view, events, i, pend, count, t) ==
    LET f == Flush(view, pend, t)
    IN  IF ~f.ok THEN [ok |-> FALSE, tbl |-> f.tbl, count |-> count, t |-> f.t]
        ELSE IF i > Len(events)
        THEN [ok |-> TRUE, tbl |-> f.tbl, count |-> count, t |-> f.t]
        ELSE IF \E k \in 1..(i - 1) : events[k].id = events[i].id
        THEN RunFirstOfIdWins(f.tbl, events, i + 1, NoPend, count, f.t)
        ELSE LET u == Upsert(f.tbl, events[i], f.t)
             IN  RunFirstOfIdWins(f.tbl, events, i + 1, u.pend, count + u.added, u.t)

\* the loop of add_events from its i-th event on, then session.commit():
\* [ok, tbl, count, t], tbl being what the session has written so far
RECURSIVE Run(_, _, _, _, _, _)
Run(view, events, i, pend, count, t) ==
    LET f == Flush(view, pend, t)
    IN  IF ~f.ok THEN [ok |-> FALSE, tbl |-> f.tbl, count |-> count, t |-> f.t]
        ELSE IF i > Len(events)
        THEN [ok |-> TRUE, tbl |-> f.tbl, count |-> count, t |-> f.t]
        ELSE LET u == Upsert(f.tbl, events[i], f.t)
             IN  Run(f.tbl, events, i + 1, u.pend, count + u.added, u.t)

\* (mutant) no rollback: what the session wrote before the error stays
CloseKeepsWrites(committed, r) == r.tbl

\* `with self.get_session() as session:` left: after commit() the session's
\* writes are the table; left by an exception, close() rolls them back
Close(committed, r) == IF r.ok THEN r.tbl ELSE committed

\* (mutant) end_datetime <= :before_date
OldRowsInclusive(tbl, before_date) ==
    {k \in DOMAIN tbl :
        tbl[k].end_datetime # NoneDT /\ tbl[k].end_datetime <= before_date}

\* delete_old_events: DELETE FROM events WHERE end_datetime < :before_date;
\* the comparison is NULL, so not true, for a row without end_datetime
OldRows(tbl, before_date) ==
    {k \in DOMAIN tbl :
        tbl[k].end_datetime # NoneDT /\ tbl[k].end_datetime < before_date}

delete_old_events(tbl, before_date) ==
    [tbl   |-> Pick(tbl, DOMAIN tbl \ OldRows(tbl, before_date), 1),
     count |-> Cardinality(OldRows(tbl, before_date))]

\* add_events(events) on the table tbl at time t: [ok, tbl, count, t]
add_events(tbl, events, t) ==
    LET r == Run(tbl, events, 1, NoPend, 0, t)
    IN  [ok |-> r.ok, tbl |-> Close(tbl, r), count |-> r.count, t |-> r.t]

\* add_event(event): one lookup, one setattr loop or add, then commit(); the
\* function has no return statement, so the caller gets None (ret)
add_event(tbl, event, t) ==
    LET u == Upsert(tbl, event, t)
        f == Flush(tbl, u.pend, u.t)
    IN  [ok |-> f.ok, tbl |-> Close(tbl, f), t |-> f.t, ret |-> NoneDT]

----------------------------------------------------------------------------
(* The read calls *)

\* the orders in which a query may return the rows at the positions S when
\* it is ORDER BY start_datetime (ties in any order), or unordered
Orderings(tbl, S, sorted) ==
    {[k \in 1..Cardinality(S) |-> tbl[p[k]]] :
        p \in {q \in [1..Cardinality(S) -> S] :
                /\ \A x, y \in 1..Cardinality(S) : x # y => q[x] # q[y]
                /\ sorted => \A x \in 1..(Cardinality(S) - 1) :
                      tbl[q[x]].start_datetime <= tbl[q[x + 1]].start_datetime}}

\* (mutant) start_datetime > start_date: the lower bound is exclusive
MatchingExclusive(tbl, city, category, start_date, end_date) ==
    {k \in DOMAIN tbl :
        /\ Falsy(city) \/ tbl[k].city = city
        /\ Falsy(category) \/ tbl[k].category = category
        /\ start_date = NoneDT \/ tbl[k].start_datetime > start_date
        /\ end_date = NoneDT \/ tbl[k].start_datetime <= end_date}

\* the rows get_events' filters let through: `if city:` and `if category:`
\* skip None and "", `if start_date:` and `if end_date:` skip None
Matching(tbl, city, category, start_date, end_date) ==
    {k \in DOMAIN tbl :
        /\ Falsy(city) \/ tbl[k].city = city
        /\ Falsy(category) \/ tbl[k].category = category
        /\ start_date = NoneDT \/ tbl[k].start_datetime >= start_date
        /\ end_date = NoneDT \/ tbl[k].start_datetime <= end_date}

\* (mutant) the limit keeps the rows at the end of the list
LimitedFromEnd(rows, limit) ==
    IF limit = NoneDT \/ limit = 0 THEN rows
    ELSE SubSeq(rows, Len(rows) - Min(limit, Len(rows)) + 1, Len(rows))

\* `if limit:` skips None and 0; LIMIT n keeps the first n rows
Limited(rows, limit) ==
    IF limit = NoneDT \/ limit = 0 THEN rows
    ELSE SubSeq(rows, 1, Min(limit, Len(rows)))

\* get_events(...): the lists the call may return
get_events(tbl, city, category, start_date, end_date, limit) ==
    {Limited(rows, limit) :
        rows \in Orderings(tbl, Matching(tbl, city, category, start_date, end_date), TRUE)}

\* get_event(event_id): <<>> for None, <<row>> else
get_event(tbl, event_id) == query_first(tbl, event_id)

\* (mutant) SELECT <column> FROM events: the value of each row
DistinctPerRow(tbl, column) == {[k \in DOMAIN tbl |-> tbl[k][column]]}

\* SELECT DISTINCT <column> FROM events: each value once, in any order
Distinct(tbl, column) ==
    LET vals == {tbl[k][column] : k \in DOMAIN tbl}
    IN  {q \in [1..Cardinality(vals) -> vals] :
            \A x, y \in 1..Cardinality(vals) : x # y => q[x] # q[y]}

\* [r[0] for r in results if r[0]]
Truthy(results) ==
    Pick(results, {k \in DOMAIN results : ~Falsy(results[k])}, 1)

\* get_cities() and get_categories(): the lists the call may return
get_cities(tbl) == {Truthy(results) : results \in Distinct(tbl, "city")}

get_categories(tbl) == {Truthy(results) : results \in Distinct(tbl, "category")}

\* get_stats()
get_stats(tbl) ==
    [total_events |-> Len(tbl),
     cities       |-> Len(CHOOSE c \in get_cities(tbl) : TRUE),
     categories   |-> Len(CHOOSE c \in get_categories(tbl) : TRUE),
     sources      |-> Cardinality({tbl[k].source : k \in DOMAIN tbl})]

----------------------------------------------------------------------------
(* The store under sequential calls *)

Mainz == <<"M", "a", "i", "n", "z">>
Hanau == <<"H", "a", "n", "a", "u">>
Music == <<"m", "u", "s", "i", "c">>
Market == <<"m", "a", "r", "k", "e", "t">>
Ffm == <<"f", "f", "m">>
Jazz == <<"J", "a", "z", "z">>
Oper == <<"O", "p", "e", "r">>
Markt == <<"M", "a", "r", "k", "t">>

\* a listing, the same listing scraped again with a new price and end, a
\* listing without end (as FrankfurtScraper builds them), and an event whose
\* title is None
JazzEv == Event(<<"a">>, Jazz, 2, 4, Mainz, Music, <<"5">>, Ffm)
JazzAgain == Event(<<"a">>, Jazz, 2, 5, Mainz, Music, <<"9">>, Ffm)
OperEv == Event(<<"b">>, Oper, 2, NoneDT, Hanau, Music, NoneStr, Ffm)
MarktEv == Event(<<"c">>, Markt, 1, 3, Mainz, Market, NoneStr, Ffm)
Untitled == Event(<<"d">>, NoneStr, 3, 4, Hanau, Market, NoneStr, Ffm)

StoreInputs == {JazzEv, JazzAgain, OperEv, MarktEv, Untitled}

\* the cutoffs of the retention sweep
Cutoffs == {4, 5}

\* the batches of n events
Batches(n) == [1..n -> StoreInputs]

NoCall == [op |-> "none", events |-> <<>>, cutoff |-> NoneDT, ok |-> TRUE,
           ret |-> 0, pre |-> <<>>, t0 |-> 0]

NoResult == [op |-> "none", args |-> <<>>, rows |-> <<>>]

\* what is kept of the write call before the last one: for an add_events
\* that returned, the ids of its batch, the number of rows before it and how
\* many of the ids were not stored then
Ids(rows) == {rows[k].id : k \in DOMAIN rows}

Earlier(call) ==
    IF call.op = "add_events" /\ call.ok
    THEN [op |-> call.op, ids |-> Ids(call.events), rows |-> Len(call.pre),
          fresh |-> Cardinality(Ids(call.events) \ Ids(call.pre))]
    ELSE [op |-> "other", ids |-> {}, rows |-> 0, fresh |-> 0]

\* no concurrent callers
NoSessions ==
    /\ sess = <<>>
    /\ lock = 0
    /\ db0 = <<>>

\* nothing handed to the Deduplicator
NoDedup ==
    /\ batch = <<>>
    /\ unique_events = <<>>

InitStore ==
    /\ db = <<>>
    /\ clock = 0
    /\ used = 0
    /\ last = NoCall
    /\ prev = Earlier(NoCall)
    /\ result = NoResult
    /\ NoSessions
    /\ NoDedup

Wrote(op, events, cutoff, ok, ret) ==
    /\ last' = [op |-> op, events |-> events, cutoff |-> cutoff, ok |-> ok,
                ret |-> ret, pre |-> db, t0 |-> clock]
    /\ prev' = Earlier(last)
    /\ result' = NoResult
    /\ UNCHANGED <<concVars, dedupVars>>

AddEvent ==
    \E ev \in StoreInputs :
        /\ used < MaxEvents
        /\ LET r == add_event(db, ev, clock)
           IN  /\ db' = r.tbl
               /\ clock' = r.t
               /\ Wrote("add_event", <<ev>>, NoneDT, r.ok, r.ret)
        /\ used' = used + 1

AddEvents ==
    \E n \in 0..(MaxEvents - used) : \E events \in Batches(n) :
        /\ LET r == add_events(db, events, clock)
           IN  /\ db' = r.tbl
               /\ clock' = r.t
               /\ Wrote("add_events", events, NoneDT, r.ok, r.count)
        /\ used' = used + n

DeleteOldEvents ==
    \E before_date \in Cutoffs :
        /\ LET r == delete_old_events(db, before_date)
           IN  /\ db' = r.tbl
               /\ Wrote("delete_old_events", <<>>, before_date, TRUE, r.count)
        /\ UNCHANGED <<clock, used>>

Read(op, args, rows) ==
    /\ result' = [op |-> op, args |-> args, rows |-> rows]
    /\ UNCHANGED <<db, clock, used, last, prev, concVars, dedupVars>>

GetEvent ==
    \E ev \in {JazzEv, OperEv} :
        Read("get_event", <<ev.id>>, get_event(db, ev.id))

GetEvents ==
    \E city \in {NoneStr, Mainz} :
        \E rows \in get_events(db, city, NoneStr, NoneDT, NoneDT, NoneDT) :
            Read("get_events", <<city, NoneStr, NoneDT, NoneDT, NoneDT>>, rows)

GetCities == \E rows \in get_cities(db) : Read("get_cities", <<>>, rows)

GetCategories == \E rows \in get_categories(db) : Read("get_categories", <<>>, rows)

GetStats == Read("get_stats", <<>>, <<get_stats(db)>>)

Next ==
    \/ AddEvent
    \/ AddEvents
    \/ DeleteOldEvents
    \/ GetEvent
    \/ GetEvents
    \/ GetCities
    \/ GetCategories
    \/ GetStats

Init == InitStore

Spec == Init /\ [][Next]_vars

----------------------------------------------------------------------------
(* Claims about the store under sequential calls (specification Spec) *)

\* the row of tbl with the given id (there is one)
RowOf(tbl, id) == query_first(tbl, id)[1]

\* the last event of a batch that carries the given id
LastWith(events, id) ==
    events[CHOOSE k \in DOMAIN events :
        events[k].id = id /\ \A m \in DOMAIN events : events[m].id = id => m <= k]

\* a write call of the kind op has just returned without raising
Returned(op) == last.op = op /\ last.ok

\* C1: add_events(B) followed by add_events on a batch with the same ids: the
\* second call returns 0, and the table then holds the rows it held before the
\* first call plus one row for each distinct id of B that was not stored.
C1_UpsertIdempotent ==
    (Returned("add_events") /\ prev.op = "add_events" /\ Ids(last.events) = prev.ids)
        => /\ last.ret = 0
           /\ Len(db) = prev.rows + prev.fresh

C1_Witness ==
    /\ Returned("add_events") /\ prev.op = "add_events"
    /\ Ids(last.events) = prev.ids
    /\ prev.fresh > 0
    /\ last.events # <<>>

\* what C2 says of the row stored for event ev after a call that began at t0
\* on the table pre
UpsertedRow(pre, ev, t0) ==
    LET row == RowOf(db, ev.id)
        old == query_first(pre, ev.id)
    IN  /\ \A f \in update_fields : row[f] = ev[f]
        /\ row.id = ev.id
        /\ t0 <= row.updated_at /\ row.updated_at <= clock
        /\ IF old # <<>>
           THEN /\ row.created_at = old[1].created_at
                /\ row.updated_at > old[1].updated_at
           ELSE /\ t0 <= row.created_at
                /\ row.created_at <= row.updated_at

\* C2: after add_event, and for every event of add_events, the row of an id
\* that was stored carries the incoming values in every mutable field and a
\* refreshed updated_at, and keeps its id and created_at; the row of an id
\* that was not stored is new, with created_at and updated_at read from the
\* clock during the call.
C2_UpsertFields ==
    (Returned("add_event") \/ Returned("add_events"))
        => \A id \in Ids(last.events) :
              /\ query_first(db, id) # <<>>
              /\ UpsertedRow(last.pre, LastWith(last.events, id), last.t0)

C2_Witness ==
    /\ Returned("add_events")
    /\ \E k \in DOMAIN last.events :
          /\ query_first(last.pre, last.events[k].id) # <<>>
          /\ RowOf(last.pre, last.events[k].id).price # last.events[k].price
    /\ \E k \in DOMAIN last.events : query_first(last.pre, last.events[k].id) = <<>>

\* C4: an add_events that raises leaves the table as it was before the call.
C4_BatchAllOrNothing ==
    (last.op = "add_events" /\ ~last.ok) => db = last.pre

\* the session had written rows when the error came
C4_Witness ==
    /\ last.op = "add_events" /\ ~last.ok
    /\ Run(last.pre, last.events, 1, NoPend, 0, last.t0).tbl # last.pre

\* C5 (as claimed): after delete_old_events(cutoff) no row is left that has no
\* end_datetime and a start_datetime before the cutoff.
C5_PurgeFallsBackToStart ==
    last.op = "delete_old_events"
        => \A k \in DOMAIN db :
              ~(db[k].end_datetime = NoneDT /\ db[k].start_datetime < last.cutoff)

\* C6: delete_old_events(cutoff) removes, of the rows that have an
\* end_datetime, exactly those whose end_datetime is before the cutoff; the
\* others stay as they were, and the call returns the number of rows removed.
C6_PurgeBoundary ==
    last.op = "delete_old_events"
        => /\ \A k \in DOMAIN last.pre :
                last.pre[k].end_datetime # NoneDT
                    => (last.pre[k].end_datetime < last.cutoff
                            <=> last.pre[k] \notin SeqSet(db))
           /\ SeqSet(db) \subseteq SeqSet(last.pre)
           /\ last.ret = Len(last.pre) - Len(db)

C6_Witness ==
    /\ last.op = "delete_old_events"
    /\ last.ret > 0
    /\ \E k \in DOMAIN db : db[k].end_datetime = last.cutoff

\* C7: a step that is not a delete_old_events call removes no id from the
\* table.
C7_OnlySweepDeletes ==
    [][(last' = last \/ last'.op # "delete_old_events") => Ids(db) \subseteq Ids(db')]_vars

\* rows were stored when an upsert of one of their ids returned, and a read
\* followed
C7_Witness ==
    /\ Returned("add_events")
    /\ Ids(last.events) \cap Ids(last.pre) # {}
    /\ result.op = "get_events"

\* C24 (as claimed): add_event returns true (1) when the id of the event was
\* not stored before the call and false (0) when it was.
C24_AddEventReportsCreated ==
    Returned("add_event") =>
        LET created == query_first(last.pre, last.events[1].id) = <<>>
        IN  /\ created => last.ret = 1
            /\ ~created => last.ret = 0

\* C25: add_events returns the number of distinct ids of the batch that were
\* not stored before the call, which is the number of rows the table has
\* gained, and the row of an id that occurs more than once in the batch ends
\* with the mutable fields of the last element that carries the id.
C25_CountsCreatedRows ==
    Returned("add_events") =>
        /\ last.ret = Cardinality(Ids(last.events) \ Ids(last.pre))
        /\ last.ret = Len(db) - Len(last.pre)
        /\ \A id \in Ids(last.events) :
              \A f \in update_fields :
                  RowOf(db, id)[f] = LastWith(last.events, id)[f]

\* a batch of two events with one new id and two prices, handed to a table
\* that has a row: one row counted, and it has the later price
C25_Witness ==
    /\ Returned("add_events")
    /\ \E i, j \in DOMAIN last.events :
          /\ i < j
          /\ last.events[i].id = last.events[j].id
          /\ last.events[i].price # last.events[j].price
          /\ query_first(last.pre, last.events[i].id) = <<>>
          /\ RowOf(db, last.events[i].id).price = last.events[j].price
    /\ Len(last.pre) >= 1
    /\ last.ret = 1

----------------------------------------------------------------------------
(* get_events asked about a loaded table (specification SpecQuery) *)

Messe == <<"M", "e", "s", "s", "e">>
Fest == <<"F", "e", "s", "t">>

MesseEv == Event(<<"e">>, Messe, 3, 4, Hanau, Market, NoneStr, Ffm)
FestEv == Event(<<"f">>, Fest, 3, NoneDT, NoneStr, NoneStr, NoneStr, Ffm)

\* five events across two cities and two categories, one without either
QueryInputs == {JazzEv, OperEv, MarktEv, MesseEv, FestEv}

InitQuery ==
    /\ \E n \in 0..MaxRows : \E events \in [1..n -> QueryInputs] :
          db = add_events(<<>>, events, 0).tbl
    /\ clock = 0
    /\ used = 0
    /\ last = NoCall
    /\ prev = Earlier(NoCall)
    /\ result = NoResult
    /\ NoSessions
    /\ NoDedup

Query ==
    /\ result = NoResult
    /\ \E city \in {NoneStr, <<>>, Mainz, Hanau}, category \in {NoneStr, <<>>, Music},
          start_date \in {NoneDT, 2}, end_date \in {NoneDT, 2},
          limit \in {NoneDT, 0, 1, 2} :
          \E rows \in get_events(db, city, category, start_date, end_date, limit) :
              Read("get_events", <<city, category, start_date, end_date, limit>>, rows)

NextQuery == Query

SpecQuery == InitQuery /\ [][NextQuery]_vars

\* rows is a list of the rows of tbl that satisfy Wanted, each once, in
\* ascending order of start_datetime
ExactlyAscending(rows, tbl, Wanted(_)) ==
    /\ SeqSet(rows) = {tbl[k] : k \in {m \in DOMAIN tbl : Wanted(tbl[m])}}
    /\ Len(rows) = Cardinality(SeqSet(rows))
    /\ \A k \in 1..(Len(rows) - 1) :
          rows[k].start_datetime <= rows[k + 1].start_datetime

\* C8 (as claimed): get_events without limit returns exactly the rows that
\* satisfy every filter that was passed (not None), in ascending order of
\* start_datetime.
C8_FilterComposition ==
    (result.op = "get_events" /\ result.args[5] = NoneDT)
        => LET a == result.args
               Wanted(row) ==
                   /\ a[1] # NoneStr => row.city = a[1]
                   /\ a[2] # NoneStr => row.category = a[2]
                   /\ a[3] # NoneDT => row.start_datetime >= a[3]
                   /\ a[4] # NoneDT => row.start_datetime <= a[4]
           IN  ExactlyAscending(result.rows, db, Wanted)

\* C8 (amended): get_events without limit returns exactly the rows that
\* satisfy every filter that was passed and is not the empty string, in
\* ascending order of start_datetime; an empty city or category filters nothing.
C8_FilterCompositionNonEmpty ==
    (result.op = "get_events" /\ result.args[5] = NoneDT)
        => LET a == result.args
               Wanted(row) ==
                   /\ (a[1] # NoneStr /\ a[1] # <<>>) => row.city = a[1]
                   /\ (a[2] # NoneStr /\ a[2] # <<>>) => row.category = a[2]
                   /\ a[3] # NoneDT => row.start_datetime >= a[3]
                   /\ a[4] # NoneDT => row.start_datetime <= a[4]
           IN  ExactlyAscending(result.rows, db, Wanted)

\* city and category filter together, and rows are left out on each side
C8_Witness ==
    /\ result.op = "get_events" /\ result.args[5] = NoneDT
    /\ result.args[1] = Mainz /\ result.args[2] = Music
    /\ result.args[3] = 2
    /\ Len(result.rows) = 1
    /\ Len(db) = 3

\* rows is the first n of the rows of tbl that satisfy Wanted when these
\* are put in ascending order of start_datetime (all of them when there are
\* fewer than n)
AscendingPrefix(rows, n, tbl, Wanted(_)) ==
    LET matches == {tbl[k] : k \in {m \in DOMAIN tbl : Wanted(tbl[m])}}
    IN  /\ Len(rows) = Min(n, Cardinality(matches))
        /\ SeqSet(rows) \subseteq matches
        /\ Len(rows) = Cardinality(SeqSet(rows))
        /\ \A k \in 1..(Len(rows) - 1) :
              rows[k].start_datetime <= rows[k + 1].start_datetime
        /\ \A row \in matches \ SeqSet(rows) :
              \A k \in DOMAIN rows : rows[k].start_datetime <= row.start_datetime

\* C26 (as claimed): for every limit n that the caller gives, get_events
\* returns at most n rows, and they are the first min(n, matches) rows of the
\* result without limit for the same filters.
C26_LimitTruncates ==
    (result.op = "get_events" /\ result.args[5] # NoneDT)
        => LET a == result.args
               Wanted(row) ==
                   /\ (a[1] # NoneStr /\ a[1] # <<>>) => row.city = a[1]
                   /\ (a[2] # NoneStr /\ a[2] # <<>>) => row.category = a[2]
                   /\ a[3] # NoneDT => row.start_datetime >= a[3]
                   /\ a[4] # NoneDT => row.start_datetime <= a[4]
           IN  /\ Len(result.rows) <= a[5]
               /\ AscendingPrefix(result.rows, a[5], db, Wanted)

\* C26 (amended): for every limit n >= 1 get_events returns at most n rows,
\* the first min(n, matches) rows of the result without limit for the same
\* filters; with the limit 0 it returns the whole result, as without limit.
C26_LimitTruncatesPositive ==
    (result.op = "get_events" /\ result.args[5] # NoneDT)
        => LET a == result.args
               Wanted(row) ==
                   /\ (a[1] # NoneStr /\ a[1] # <<>>) => row.city = a[1]
                   /\ (a[2] # NoneStr /\ a[2] # <<>>) => row.category = a[2]
                   /\ a[3] # NoneDT => row.start_datetime >= a[3]
                   /\ a[4] # NoneDT => row.start_datetime <= a[4]
           IN  IF a[5] >= 1
               THEN /\ Len(result.rows) <= a[5]
                    /\ AscendingPrefix(result.rows, a[5], db, Wanted)
               ELSE ExactlyAscending(result.rows, db, Wanted)

\* three rows match and the limit 2 leaves the last of them out
C26_Witness ==
    /\ result.op = "get_events" /\ result.args[5] = 2
    /\ result.args[3] = 2
    /\ Len(db) = 3
    /\ \A k \in DOMAIN db : db[k].start_datetime >= 2
    /\ Len(result.rows) = 2

----------------------------------------------------------------------------
(* get_cities and get_categories asked about a loaded table (specification *)
(* SpecDistinct)                                                           *)

\* an event whose city and category are the empty string
BlankEv == Event(<<"g">>, Fest, 3, NoneDT, <<>>, <<>>, NoneStr, Ffm)

\* cities Mainz (twice), Hanau, None and ''; categories Music (twice),
\* Market, None and ''
DistinctInputs == {JazzEv, OperEv, MarktEv, FestEv, BlankEv}

InitDistinct ==
    /\ \E n \in 0..MaxRows : \E events \in [1..n -> DistinctInputs] :
          db = add_events(<<>>, events, 0).tbl
    /\ clock = 0
    /\ used = 0
    /\ last = NoCall
    /\ prev = Earlier(NoCall)
    /\ result = NoResult
    /\ NoSessions
    /\ NoDedup

NextDistinct == GetCities \/ GetCategories

SpecDistinct == InitDistinct /\ [][NextDistinct]_vars

\* the values of a column in the rows of the table
ColumnValues(tbl, column) == {tbl[k][column] : k \in DOMAIN tbl}

\* a list without repeated elements
EachOnce(rows) == Len(rows) = Cardinality(SeqSet(rows))

\* C27 (as claimed): get_cities returns every city that some row has and that
\* is not None exactly once, and nothing else; get_categories the same for
\* the categories.
C27_DistinctNonNull ==
    /\ result.op = "get_cities" =>
          /\ EachOnce(result.rows)
          /\ SeqSet(result.rows) = ColumnValues(db, "city") \ {NoneStr}
    /\ result.op = "get_categories" =>
          /\ EachOnce(result.rows)
          /\ SeqSet(result.rows) = ColumnValues(db, "category") \ {NoneStr}

\* C27 (amended): get_cities returns every city that some row has and that
\* is neither None nor the empty string exactly once, and nothing else;
\* get_categories the same for the categories.
C27_DistinctNonEmpty ==
    /\ result.op = "get_cities" =>
          /\ EachOnce(result.rows)
          /\ SeqSet(result.rows) = ColumnValues(db, "city") \ {NoneStr, <<>>}
    /\ result.op = "get_categories" =>
          /\ EachOnce(result.rows)
          /\ SeqSet(result.rows) = ColumnValues(db, "category") \ {NoneStr, <<>>}

\* two rows in Mainz and one without a city: the list is Mainz, once
C27_Witness ==
    /\ result.op = "get_cities"
    /\ Len(db) = 3
    /\ Cardinality({k \in DOMAIN db : db[k].city = Mainz}) = 2
    /\ NoneStr \in ColumnValues(db, "city")
    /\ result.rows = <<Mainz>>

----------------------------------------------------------------------------
(* Two add_events calls in separate sessions (specification SpecConc).     *)
(* The pysqlite connection of a Session begins its transaction at the      *)
(* first INSERT or UPDATE; a SELECT before that reads the committed table. *)
(* From the first write to COMMIT or ROLLBACK the transaction holds        *)
(* SQLite's write lock, and the session reads what it has written.         *)

Callers == {1, 2}

\* what a concurrent call leaves alone
concRest == <<used, last, prev, result, db0, dedupVars>>

ConcInputs == {JazzEv, JazzAgain, OperEv}

Idle == [pc |-> "idle", events |-> <<>>, i |-> 1, pend |-> NoPend,
         count |-> 0, tbl |-> <<>>]

InitConc ==
    /\ \E stored \in {<<>>, <<JazzEv>>} : db = add_events(<<>>, stored, 0).tbl
    /\ db0 = db
    /\ clock = 4
    /\ sess = [p \in Callers |-> Idle]
    /\ lock = 0
    /\ used = 0
    /\ last = NoCall
    /\ prev = Earlier(NoCall)
    /\ result = NoResult
    /\ NoDedup

\* whether flushing sends a statement
Emits(pend) ==
    \/ pend.kind = "insert"
    \/ pend.kind = "update"
        /\ Changed(pend.loaded, Assigned(pend.loaded, pend.ev, pend.upd)) # {}

\* the table as the session of p reads it
View(p) == IF lock = p THEN sess[p].tbl ELSE db

\* the exception leaves the with-block: close() rolls back and frees the lock
Raise(p) ==
    /\ sess' = [sess EXCEPT ![p].pc = "failed", ![p].pend = NoPend, ![p].tbl = <<>>]
    /\ lock' = IF lock = p THEN 0 ELSE lock
    /\ UNCHANGED db

\* add_events(events) is called
Begin(p) ==
    /\ sess[p].pc = "idle"
    /\ \E n \in 0..MaxConcBatch : \E evs \in [1..n -> ConcInputs] :
          sess' = [sess EXCEPT ![p].pc = "loop", ![p].events = evs]
    /\ UNCHANGED <<db, clock, lock, concRest>>

\* one turn of the loop: the query autoflushes what the turn before left
\* pending, then finds the row or not
Iterate(p) ==
    /\ sess[p].pc = "loop"
    /\ sess[p].i <= Len(sess[p].events)
    /\ Emits(sess[p].pend) => lock \in {0, p}
    /\ UNCHANGED concRest
    /\ LET f == Flush(View(p), sess[p].pend, clock)
           u == Upsert(f.tbl, sess[p].events[sess[p].i], f.t)
       IN  IF ~f.ok
           THEN Raise(p) /\ clock' = f.t
           ELSE /\ sess' = [sess EXCEPT ![p].i = @ + 1, ![p].pend = u.pend,
                                        ![p].count = @ + u.added, ![p].tbl = f.tbl]
                /\ lock' = IF Emits(sess[p].pend) THEN p ELSE lock
                /\ clock' = u.t
                /\ UNCHANGED db

\* session.commit(): flush, then COMMIT
Commit(p) ==
    /\ sess[p].pc = "loop"
    /\ sess[p].i > Len(sess[p].events)
    /\ Emits(sess[p].pend) => lock \in {0, p}
    /\ UNCHANGED concRest
    /\ LET f == Flush(View(p), sess[p].pend, clock)
       IN  /\ clock' = f.t
           /\ IF ~f.ok
              THEN Raise(p)
              ELSE /\ sess' = [sess EXCEPT ![p].pc = "done", ![p].pend = NoPend,
                                           ![p].tbl = <<>>]
                   /\ db' = f.tbl
                   /\ lock' = IF lock = p \/ Emits(sess[p].pend) THEN 0 ELSE lock

\* the other transaction keeps the write lock longer than the busy timeout:
\* OperationalError, database is locked
Locked(p) ==
    /\ sess[p].pc = "loop"
    /\ Emits(sess[p].pend)
    /\ lock \notin {0, p}
    /\ Raise(p)
    /\ UNCHANGED <<clock, concRest>>

NextConc ==
    \/ \E p \in Callers : Begin(p)
    \/ \E p \in Callers : Iterate(p)
    \/ \E p \in Callers : Commit(p)
    \/ \E p \in Callers : Locked(p)

SpecConc == InitConc /\ [][NextConc]_vars

\* a table without its timestamps
Untimed(tbl) ==
    {[f \in DOMAIN tbl[k] \ {"created_at", "updated_at"} |-> tbl[k][f]] : k \in DOMAIN tbl}

\* the table after the call of p and then the call of q, one after the other
Serial(p, q) ==
    add_events(add_events(db0, sess[p].events, 0).tbl, sess[q].events, 0).tbl

\* C3 (as claimed): once both concurrent add_events calls have ended, both
\* have completed, no id has two rows, and the table is the one that the two
\* calls leave when run one after the other in some order.
C3_ConcurrentUpsertsSerialize ==
    (\A p \in Callers : sess[p].pc \in {"done", "failed"})
        => /\ \A p \in Callers : sess[p].pc = "done"
           /\ Cardinality(Ids(db)) = Len(db)
           /\ Untimed(db) \in {Untimed(Serial(1, 2)), Untimed(Serial(2, 1))}

----------------------------------------------------------------------------
(* Deduplicator (src/utils/deduplicator.py).  start_datetime counts        *)
(* minutes here.                                                            *)

\* title_threshold, as a fraction
title_threshold == [num |-> 85, den |-> 100]

time_window_minutes == 60

UpperCase == <<"A", "B", "C", "D", "E", "F", "G", "H", "I", "J", "K", "L", "M",
               "N", "O", "P", "Q", "R", "S", "T", "U", "V", "W", "X", "Y", "Z">>

LowerCase == <<"a", "b", "c", "d", "e", "f", "g", "h", "i", "j", "k", "l", "m",
               "n", "o", "p", "q", "r", "s", "t", "u", "v", "w", "x", "y", "z">>

\* str.lower()
lower(s) ==
    [k \in DOMAIN s |->
        IF \E c \in DOMAIN UpperCase : UpperCase[c] = s[k]
        THEN LowerCase[CHOOSE c \in DOMAIN UpperCase : UpperCase[c] = s[k]]
        ELSE s[k]]

\* how far a[i..] and b[j..] agree, staying within a[..ahi] and b[..bhi]
RECURSIVE MatchLen(_, _, _, _, _, _)
MatchLen(a, b, i, j, ahi, bhi) ==
    IF i > ahi \/ j > bhi \/ a[i] # b[j] THEN 0
    ELSE 1 + MatchLen(a, b, i + 1, j + 1, ahi, bhi)

\* SequenceMatcher.find_longest_match without junk: the longest block common
\* to a[alo..ahi] and b[blo..bhi]; of the longest, the one starting earliest
\* in a; of those, the one starting earliest in b
find_longest_match(a, b, alo, ahi, blo, bhi) ==
    LET At   == (alo..ahi) \X (blo..bhi)
        size == [x \in At |-> MatchLen(a, b, x[1], x[2], ahi, bhi)]
        Sizes == {size[x] : x \in At}
        most == CHOOSE n \in Sizes : \A m \in Sizes : m <= n
        Best == {x \in At : size[x] = most}
        x    == CHOOSE x \in Best : \A y \in Best :
                    x[1] < y[1] \/ (x[1] = y[1] /\ x[2] <= y[2])
    IN  [i |-> x[1], j |-> x[2], size |-> most]

\* the sum of the sizes of SequenceMatcher.get_matching_blocks: the longest
\* block, then the same to its left and to its right
RECURSIVE Matches(_, _, _, _, _, _)
Matches(a, b, alo, ahi, blo, bhi) ==
    IF alo > ahi \/ blo > bhi THEN 0
    ELSE LET m == find_longest_match(a, b, alo, ahi, blo, bhi)
         IN  IF m.size = 0 THEN 0
             ELSE m.size
                  + Matches(a, b, alo, m.i - 1, blo, m.j - 1)
                  + Matches(a, b, m.i + m.size, ahi, m.j + m.size, bhi)

\* SequenceMatcher(None, a, b).ratio(), as the fraction 2 * matches / length
ratio(a, b) ==
    [num |-> 2 * Matches(a, b, 1, Len(a), 1, Len(b)), den |-> Len(a) + Len(b)]

similarity(a, b) ==
    IF Falsy(a) \/ Falsy(b) THEN [num |-> 0, den |-> 1]
    ELSE ratio(lower(a), lower(b))

Below(x, y) == x.num * y.den < y.num * x.den

\* (mutant) a difference equal to the window disqualifies too
is_duplicateWindowInclusive(event1, event2) ==
    IF event1.id = event2.id THEN TRUE
    ELSE IF Below(similarity(event1.title, event2.title), title_threshold) THEN FALSE
    ELSE IF /\ event1.start_datetime # NoneDT
            /\ event2.start_datetime # NoneDT
            /\ Abs(event1.start_datetime - event2.start_datetime) >= time_window_minutes
         THEN FALSE
    ELSE IF /\ ~Falsy(event1.city)
            /\ ~Falsy(event2.city)
            /\ lower(event1.city) # lower(event2.city)
         THEN FALSE
    ELSE TRUE

\* (mutant) the cities are not compared
is_duplicateAnyCity(event1, event2) ==
    IF event1.id = event2.id THEN TRUE
    ELSE IF Below(similarity(event1.title, event2.title), title_threshold) THEN FALSE
    ELSE IF /\ event1.start_datetime # NoneDT
            /\ event2.start_datetime # NoneDT
            /\ Abs(event1.start_datetime - event2.start_datetime) > time_window_minutes
         THEN FALSE
    ELSE TRUE

is_duplicate(event1, event2) ==
    IF event1.id = event2.id THEN TRUE
    ELSE IF Below(similarity(event1.title, event2.title), title_threshold) THEN FALSE
    ELSE IF /\ event1.start_datetime # NoneDT
            /\ event2.start_datetime # NoneDT
            /\ Abs(event1.start_datetime - event2.start_datetime) > time_window_minutes
         THEN FALSE
    ELSE IF /\ ~Falsy(event1.city)
            /\ ~Falsy(event2.city)
            /\ lower(event1.city) # lower(event2.city)
         THEN FALSE
    ELSE TRUE

\* the loop of deduplicate from the i-th event on
RECURSIVE Unique(_, _, _)
Unique(events, i, kept) ==
    IF i > Len(events) THEN kept
    ELSE IF \E k \in DOMAIN kept : is_duplicate(events[i], kept[k])
         THEN Unique(events, i + 1, kept)
         ELSE Unique(events, i + 1, Append(kept, events[i]))

\* (mutant) compares an event with the one before it in the input only
deduplicateAdjacent(events) ==
    Pick(events,
         {i \in DOMAIN events : i = 1 \/ ~is_duplicate(events[i], events[i - 1])}, 1)

\* (mutant) of two duplicates the later one stays
deduplicateKeepsLast(events) ==
    Pick(events,
         {i \in DOMAIN events :
             \A k \in DOMAIN events : k > i => ~is_duplicate(events[k], events[i])}, 1)

\* (mutant) an event is dropped when any earlier event of the input, kept or
\* not, is its duplicate
deduplicateAgainstSeen(events) ==
    Pick(events,
         {i \in DOMAIN events :
             \A k \in DOMAIN events : k < i => ~is_duplicate(events[i], events[k])}, 1)

deduplicate(events) == Unique(events, 1, <<>>)

\* (mutant) one pair for an event, however many later events duplicate it
find_duplicatesOnePerEvent(events) ==
    LET Later(i) == {k \in DOMAIN events : k > i /\ is_duplicate(events[i], events[k])}
        First(i) == {k \in Later(i) : \A m \in Later(i) : k <= m}
        Pairs(i) == Pick([k \in DOMAIN events |-> <<events[i], events[k]>>], First(i), 1)
        RECURSIVE From(_)
        From(i) == IF i > Len(events) THEN <<>> ELSE Pairs(i) \o From(i + 1)
    IN  From(1)

\* the duplicate pairs, the earlier event first
find_duplicates(events) ==
    LET Pairs(i) == Pick([k \in DOMAIN events |-> <<events[i], events[k]>>],
                         {k \in DOMAIN events :
                             k > i /\ is_duplicate(events[i], events[k])}, 1)
        RECURSIVE From(_)
        From(i) == IF i > Len(events) THEN <<>> ELSE Pairs(i) \o From(i + 1)
    IN  From(1)

----------------------------------------------------------------------------
(* deduplicate on a batch, and again on what it returned (SpecDedup)       *)

Weinfest == <<"W", "e", "i", "n", "f", "e", "s", "t">>
WEINFEST == <<"W", "E", "I", "N", "F", "E", "S", "T">>
Weinfeste == <<"W", "e", "i", "n", "f", "e", "s", "t", "e">>
Weinfast == <<"W", "e", "i", "n", "f", "a", "s", "t">>
Weintest == <<"W", "e", "i", "n", "t", "e", "s", "t", "s">>
mainz == <<"m", "a", "i", "n", "z">>

Wein     == Event(<<"w">>, Weinfest, 20, NoneDT, Mainz, NoneStr, NoneStr, Ffm)
WeinLate == Event(<<"x">>, WEINFEST, 70, NoneDT, mainz, NoneStr, NoneStr, Ffm)
WeinEarly == Event(<<"y">>, Weinfeste, 0, NoneDT, NoneStr, NoneStr, NoneStr, Ffm)
WeinNight == Event(<<"z">>, Weinfast, 120, NoneDT, Mainz, NoneStr, NoneStr, Ffm)
WeinHanau == Event(<<"h">>, Weinfest, 20, NoneDT, Hanau, NoneStr, NoneStr, Ffm)
WeinTest == Event(<<"t">>, Weintest, 20, NoneDT, Mainz, NoneStr, NoneStr, Ffm)
OperW    == Event(<<"w">>, Oper, 500, NoneDT, Hanau, NoneStr, NoneStr, Ffm)
Blank    == Event(<<"n">>, NoneStr, NoneDT, NoneDT, <<>>, NoneStr, NoneStr, Ffm)

DedupInputs == {Wein, WeinLate, WeinEarly, WeinNight, WeinHanau, WeinTest, OperW, Blank}

InitDedup ==
    /\ \E n \in 0..MaxBatch : batch \in [1..n -> DedupInputs]
    /\ unique_events = <<>>
    /\ result = NoResult
    /\ db = <<>>
    /\ clock = 0
    /\ used = 0
    /\ last = NoCall
    /\ prev = Earlier(NoCall)
    /\ NoSessions

\* deduplicate(batch)
Deduplicate ==
    /\ result = NoResult
    /\ unique_events' = deduplicate(batch)
    /\ result' = [op |-> "deduplicate", args |-> <<batch>>, rows |-> unique_events']
    /\ UNCHANGED <<batch, storeRest, concVars>>

\* deduplicate on the list the call before returned
DeduplicateAgain ==
    /\ result.op = "deduplicate"
    /\ batch' = unique_events
    /\ unique_events' = deduplicate(unique_events)
    /\ result' = [op |-> "deduplicate again", args |-> result.args,
                  rows |-> unique_events']
    /\ UNCHANGED <<storeRest, concVars>>

NextDedup == Deduplicate \/ DeduplicateAgain

SpecDedup == InitDedup /\ [][NextDedup]_vars

\* C9: deduplicate applied to its own output returns that output, element for
\* element.
C9_DedupIdempotent ==
    result.op = "deduplicate again" => unique_events = batch

\* a batch of three with two events of one id and a fuzzy match of another id
\* went through twice and one event is left
C9_Witness ==
    /\ result.op = "deduplicate again"
    /\ LET xs == result.args[1]
       IN  /\ Len(xs) = 3
           /\ \E i, j \in DOMAIN xs : i # j /\ xs[i] # xs[j] /\ xs[i].id = xs[j].id
           /\ \E i, j \in DOMAIN xs : xs[i].id # xs[j].id /\ is_duplicate(xs[i], xs[j])
    /\ Len(unique_events) = 1

\* the positions of xs that out keeps: out is xs at these positions, in the
\* order of xs
Kept(xs, out) == {S \in SUBSET DOMAIN xs : out = Pick(xs, S, 1)}

\* C10: the output of deduplicate is an order-preserving subsequence of its
\* input that contains the first input element, and every discarded occurrence
\* is a duplicate of a retained occurrence that precedes it in the input.
C10_FirstOccurrenceWins ==
    result.op = "deduplicate" =>
        \E S \in Kept(batch, unique_events) :
            /\ batch # <<>> => 1 \in S
            /\ \A j \in DOMAIN batch \ S :
                  \E k \in S : k < j /\ is_duplicate(batch[j], batch[k])

\* a batch of three whose middle event was discarded as a duplicate of the
\* first while the last, no duplicate of the first, stayed
C10_Witness ==
    /\ result.op = "deduplicate"
    /\ Len(batch) = 3
    /\ unique_events = <<batch[1], batch[3]>>
    /\ batch[1].id # batch[2].id
    /\ is_duplicate(batch[2], batch[1])
    /\ is_duplicate(batch[3], batch[2])

----------------------------------------------------------------------------
(* deduplicate on a batch and on the same events in another order          *)
(* (specification SpecOrder)                                               *)

\* Weinfest in Mainz at 0:00, 0:50, 1:40 and 2:30, under four ids
WeinAt0   == Event(<<"p">>, Weinfest, 0, NoneDT, Mainz, NoneStr, NoneStr, Ffm)
WeinAt50  == Event(<<"q">>, Weinfest, 50, NoneDT, Mainz, NoneStr, NoneStr, Ffm)
WeinAt100 == Event(<<"r">>, Weinfest, 100, NoneDT, Mainz, NoneStr, NoneStr, Ffm)
WeinAt150 == Event(<<"s">>, Weinfest, 150, NoneDT, Mainz, NoneStr, NoneStr, Ffm)

OrderInputs == {WeinAt0, WeinAt50, WeinAt100, WeinAt150, WeinHanau, OperW}

InitOrder ==
    /\ \E n \in 0..MaxBatch : batch \in [1..n -> OrderInputs]
    /\ unique_events = <<>>
    /\ result = NoResult
    /\ db = <<>>
    /\ clock = 0
    /\ used = 0
    /\ last = NoCall
    /\ prev = Earlier(NoCall)
    /\ NoSessions

\* the lists that hold the events of xs in some order
Orders(xs) ==
    {[k \in DOMAIN xs |-> xs[f[k]]] :
        f \in {g \in [DOMAIN xs -> DOMAIN xs] : \A x, y \in DOMAIN xs : x # y => g[x] # g[y]}}

\* deduplicate on the events of the batch in another order; the call before
\* and what it returned stay in result
DeduplicateReordered ==
    /\ result.op = "deduplicate"
    /\ \E reordered \in Orders(batch) \ {batch} :
          /\ batch' = reordered
          /\ unique_events' = deduplicate(reordered)
    /\ result' = [op |-> "deduplicate reordered", args |-> <<batch>>,
                  rows |-> unique_events]
    /\ UNCHANGED <<storeRest, concVars>>

NextOrder == Deduplicate \/ DeduplicateReordered

SpecOrder == InitOrder /\ [][NextOrder]_vars

\* a, b, c have one title and one city, under three ids, and b starts 50
\* minutes after a, c 50 minutes after b
FiftyApart(a, b, c) ==
    /\ a.title = b.title /\ b.title = c.title /\ ~Falsy(a.title)
    /\ a.city = b.city /\ b.city = c.city /\ ~Falsy(a.city)
    /\ a.id # b.id /\ b.id # c.id /\ a.id # c.id
    /\ b.start_datetime = a.start_datetime + 50
    /\ c.start_datetime = b.start_datetime + 50

\* C30: for a, b, c with the same title and city and starts 50 minutes apart,
\* a and b are duplicates, b and c are duplicates, a and c are not;
\* deduplicate(<<a, b, c>>) keeps two events (a and c) and
\* deduplicate(<<b, a, c>>) keeps one (b).
C30_OrderDependent ==
    (/\ result.op = "deduplicate reordered"
     /\ Len(result.args[1]) = 3
     /\ FiftyApart(result.args[1][1], result.args[1][2], result.args[1][3])
     /\ batch = <<result.args[1][2], result.args[1][1], result.args[1][3]>>)
        => LET a == result.args[1][1]
               b == result.args[1][2]
               c == result.args[1][3]
           IN  /\ is_duplicate(a, b) /\ is_duplicate(b, a)
               /\ is_duplicate(b, c) /\ is_duplicate(c, b)
               /\ ~is_duplicate(a, c) /\ ~is_duplicate(c, a)
               /\ result.rows = <<a, c>>
               /\ unique_events = <<b>>

\* the batch of the events at 0:50, 1:40 and 2:30 went through in this order
\* and with its first two events exchanged
C30_Witness ==
    /\ result.op = "deduplicate reordered"
    /\ result.args[1] = <<WeinAt50, WeinAt100, WeinAt150>>
    /\ batch = <<WeinAt100, WeinAt50, WeinAt150>>
    /\ Len(result.rows) = 2
    /\ Len(unique_events) = 1

----------------------------------------------------------------------------
(* is_duplicate on a pair of events, in either order, and deduplicate on   *)
(* the pair (SpecPair)                                                      *)

Sommerfest == <<"F", "r", "a", "n", "k", "f", "u", "r", "t", " ",
                "S", "o", "m", "m", "e", "r", "f", "e", "s", "t">>
Sommerflug == <<"F", "r", "a", "n", "k", "f", "u", "r", "t", " ",
                "S", "o", "m", "m", "e", "r", "f", "l", "u", "g">>

PairFirst ==
    {Event(<<"a">>, title, start, NoneDT, city, NoneStr, NoneStr, Ffm) :
        title \in {Weinfest, NoneStr, Sommerfest},
        start \in {NoneDT, 60},
        city \in {NoneStr, <<>>, Mainz}}

PairSecond ==
    {Event(id, title, start, NoneDT, city, NoneStr, NoneStr, Ffm) :
        id \in {<<"a">>, <<"b">>},
        title \in {Weinfest, WEINFEST, Weinfast, Weintest, NoneStr, <<>>, Sommerflug},
        start \in {NoneDT, 0, 30, 60, 120, 121, 150},
        city \in {NoneStr, <<>>, Mainz, mainz, Hanau}}

InitPair ==
    /\ \E event1 \in PairFirst : \E event2 \in PairSecond :
          batch \in {<<event1, event2>>, <<event2, event1>>}
    /\ unique_events = <<>>
    /\ result = NoResult
    /\ db = <<>>
    /\ clock = 0
    /\ used = 0
    /\ last = NoCall
    /\ prev = Earlier(NoCall)
    /\ NoSessions

\* is_duplicate(event1, event2)
IsDuplicate ==
    /\ result = NoResult
    /\ result' = [op |-> "is_duplicate", args |-> batch,
                  rows |-> <<is_duplicate(batch[1], batch[2])>>]
    /\ UNCHANGED <<batch, unique_events, storeRest, concVars>>

\* deduplicate([event1, event2])
DeduplicatePair ==
    /\ result = NoResult
    /\ unique_events' = deduplicate(batch)
    /\ result' = [op |-> "deduplicate", args |-> <<batch>>, rows |-> unique_events']
    /\ UNCHANGED <<batch, storeRest, concVars>>

NextPair == IsDuplicate \/ DeduplicatePair

SpecPair == InitPair /\ [][NextPair]_vars

\* both present and more than 60 minutes apart
FarApart(s1, s2) == s1 # NoneDT /\ s2 # NoneDT /\ (s1 - s2 > 60 \/ s2 - s1 > 60)

\* both cities present and different, whatever the case of their letters
OtherCity(c1, c2) == ~Falsy(c1) /\ ~Falsy(c2) /\ lower(c1) # lower(c2)

\* similarity at least 0.85
SimilarTitles(t1, t2) ==
    LET sim == similarity(t1, t2) IN 100 * sim.num >= 85 * sim.den

\* C11: is_duplicate(a, b) is true if the ids are equal; otherwise false if
\* the title similarity is below 0.85; otherwise false if both have a start
\* and the starts are more than 60 minutes apart (exactly 60 does not
\* disqualify; 30 minutes apart is a duplicate, 90 is not); otherwise false if
\* both have a city and the cities differ case-insensitively; otherwise true.
C11_DuplicateChain ==
    result.op = "is_duplicate" =>
        LET a == batch[1]
            b == batch[2]
            dup == result.rows[1]
            similar == SimilarTitles(a.title, b.title)
            far == FarApart(a.start_datetime, b.start_datetime)
            other == OtherCity(a.city, b.city)
        IN  /\ a.id = b.id => dup
            /\ a.id # b.id /\ ~similar => ~dup
            /\ a.id # b.id /\ similar /\ far => ~dup
            /\ a.id # b.id /\ similar /\ ~far /\ other => ~dup
            /\ a.id # b.id /\ similar /\ ~far /\ ~other => dup
            /\ a.id # b.id /\ a.title = b.title /\ a.title = Weinfest
                  /\ a.city = Mainz /\ b.city = Mainz
                  => /\ {a.start_datetime, b.start_datetime} = {30, 60} => dup
                     /\ {a.start_datetime, b.start_datetime} = {0, 60} => dup
                     /\ {a.start_datetime, b.start_datetime} = {60, 150} => ~dup

\* different ids, titles whose similarity is exactly 0.85, starts exactly 60
\* minutes apart and cities that differ in case only: a duplicate
C11_Witness ==
    /\ result.op = "is_duplicate"
    /\ batch[1].id # batch[2].id
    /\ {batch[1].title, batch[2].title} = {Sommerfest, Sommerflug}
    /\ {batch[1].start_datetime, batch[2].start_datetime} = {60, 120}
    /\ {batch[1].city, batch[2].city} = {Mainz, mainz}
    /\ result.rows[1]

\* C12 (as claimed): two events with the same title and the same start whose
\* cities are both present and differ are never duplicates, whatever their
\* other fields, and deduplicate keeps both.
C12_CityGate ==
    LET a == batch[1]
        b == batch[2]
        gate == /\ a.title = b.title /\ ~Falsy(a.title)
                /\ a.start_datetime = b.start_datetime
                /\ ~Falsy(a.city) /\ ~Falsy(b.city) /\ a.city # b.city
    IN  /\ result.op = "is_duplicate" /\ gate => ~result.rows[1]
        /\ result.op = "deduplicate" /\ gate => unique_events = batch

\* C12 (amended): two events with different ids, the same title and the same
\* start whose cities are both present and differ case-insensitively are never
\* duplicates, and deduplicate keeps both.
C12_CityGateOtherIds ==
    LET a == batch[1]
        b == batch[2]
        gate == /\ a.id # b.id
                /\ a.title = b.title /\ ~Falsy(a.title)
                /\ a.start_datetime = b.start_datetime
                /\ OtherCity(a.city, b.city)
    IN  /\ result.op = "is_duplicate" /\ gate => ~result.rows[1]
        /\ result.op = "deduplicate" /\ gate => unique_events = batch

\* deduplicate kept both of two events with the same title and start, ids a
\* and b, in Mainz and in Hanau
C12_Witness ==
    /\ result.op = "deduplicate"
    /\ batch[1].id # batch[2].id
    /\ batch[1].title = Weinfest /\ batch[2].title = Weinfest
    /\ batch[1].start_datetime = 60 /\ batch[2].start_datetime = 60
    /\ {batch[1].city, batch[2].city} = {Mainz, Hanau}
    /\ unique_events = batch

----------------------------------------------------------------------------
(* find_duplicates on a batch (SpecFind)                                   *)

\* find_duplicates(batch)
FindDuplicates ==
    /\ result = NoResult
    /\ result' = [op |-> "find_duplicates", args |-> <<batch>>,
                  rows |-> find_duplicates(batch)]
    /\ UNCHANGED <<dedupVars, storeRest, concVars>>

NextFind == FindDuplicates

SpecFind == InitDedup /\ [][NextFind]_vars

\* the positions i < j of xs whose events are duplicates
DuplicatePositions(xs) ==
    {p \in (DOMAIN xs) \X (DOMAIN xs) : p[1] < p[2] /\ is_duplicate(xs[p[1]], xs[p[2]])}

\* the place of p among the pairs of P, ordered by first and then by second
\* position
Place(P, p) ==
    1 + Cardinality({q \in P : q[1] < p[1] \/ (q[1] = p[1] /\ q[2] < p[2])})

\* C13: find_duplicates(xs) is the list of the pairs (xs[i], xs[j]) with i < j
\* and is_duplicate(xs[i], xs[j]), every such pair once and none else, in the
\* order of i and then j, and xs is left as it was.
C13_FindAllPairs ==
    result.op = "find_duplicates" =>
        LET xs == result.args[1]
            P == DuplicatePositions(xs)
        IN  /\ Len(result.rows) = Cardinality(P)
            /\ \A p \in P : result.rows[Place(P, p)] = <<xs[p[1]], xs[p[2]]>>
            /\ batch = xs

\* three events of different ids, the first a duplicate of both others and
\* these no duplicates of each other: two pairs
C13_Witness ==
    /\ result.op = "find_duplicates"
    /\ Len(batch) = 3
    /\ Cardinality({batch[k].id : k \in DOMAIN batch}) = 3
    /\ ~is_duplicate(batch[2], batch[3])
    /\ result.rows = <<(<<batch[1], batch[2]>>), (<<batch[1], batch[3]>>)>>

----------------------------------------------------------------------------
(* BaseScraper.generate_event_id (src/scrapers/base_scraper.py): the first *)
(* 16 hexadecimal digits of the SHA-256 digest of the arguments joined     *)
(* with "-".  A 32-bit word is a pair of 16-bit halves, the high one       *)
(* first.                                                                   *)

\* the characters with the code points 32 to 126, in order (code point 96,
\* the grave accent, by name)
Ascii == <<
    " ", "!", "\"", "#", "$", "%", "&", "'", "(", ")", "*", "+", ",", "-", ".", "/",
    "0", "1", "2", "3", "4", "5", "6", "7", "8", "9", ":", ";", "<", "=", ">", "?",
    "@", "A", "B", "C", "D", "E", "F", "G", "H", "I", "J", "K", "L", "M", "N", "O",
    "P", "Q", "R", "S", "T", "U", "V", "W", "X", "Y", "Z", "[", "\\", "]", "^", "_",
    "grave", "a", "b", "c", "d", "e", "f", "g", "h", "i", "j", "k", "l", "m", "n", "o",
    "p", "q", "r", "s", "t", "u", "v", "w", "x", "y", "z", "{", "|", "}", "~" >>

\* ord(c), for a character of Ascii
ord(c) == 31 + CHOOSE k \in DOMAIN Ascii : Ascii[k] = c

\* str.encode() on text of Ascii characters: one byte for each character
encode(s) == [k \in DOMAIN s |-> ord(s[k])]

\* str(arg)
str(arg) == IF arg = NoneStr THEN <<"N", "o", "n", "e">> ELSE arg

\* "-".join(str(arg) for arg in args)
RECURSIVE join(_, _)
join(args, k) ==
    IF k > Len(args) THEN <<>>
    ELSE IF k = Len(args) THEN str(args[k])
    ELSE str(args[k]) \o <<"-">> \o join(args, k + 1)

\* the exclusive or of the numbers a and b below 16, at position 16 * a + b + 1
XorNibble == <<
    0, 1, 2, 3, 4, 5, 6, 7, 8, 9, 10, 11, 12, 13, 14, 15,
    1, 0, 3, 2, 5, 4, 7, 6, 9, 8, 11, 10, 13, 12, 15, 14,
    2, 3, 0, 1, 6, 7, 4, 5, 10, 11, 8, 9, 14, 15, 12, 13,
    3, 2, 1, 0, 7, 6, 5, 4, 11, 10, 9, 8, 15, 14, 13, 12,
    4, 5, 6, 7, 0, 1, 2, 3, 12, 13, 14, 15, 8, 9, 10, 11,
    5, 4, 7, 6, 1, 0, 3, 2, 13, 12, 15, 14, 9, 8, 11, 10,
    6, 7, 4, 5, 2, 3, 0, 1, 14, 15, 12, 13, 10, 11, 8, 9,
    7, 6, 5, 4, 3, 2, 1, 0, 15, 14, 13, 12, 11, 10, 9, 8,
    8, 9, 10, 11, 12, 13, 14, 15, 0, 1, 2, 3, 4, 5, 6, 7,
    9, 8, 11, 10, 13, 12, 15, 14, 1, 0, 3, 2, 5, 4, 7, 6,
    10, 11, 8, 9, 14, 15, 12, 13, 2, 3, 0, 1, 6, 7, 4, 5,
    11, 10, 9, 8, 15, 14, 13, 12, 3, 2, 1, 0, 7, 6, 5, 4,
    12, 13, 14, 15, 8, 9, 10, 11, 4, 5, 6, 7, 0, 1, 2, 3,
    13, 12, 15, 14, 9, 8, 11, 10, 5, 4, 7, 6, 1, 0, 3, 2,
    14, 15, 12, 13, 10, 11, 8, 9, 6, 7, 4, 5, 2, 3, 0, 1,
    15, 14, 13, 12, 11, 10, 9, 8, 7, 6, 5, 4, 3, 2, 1, 0 >>

\* the bitwise and of the numbers a and b below 16, at position 16 * a + b + 1
AndNibble == <<
    0, 0, 0, 0, 0, 0, 0, 0, 0, 0, 0, 0, 0, 0, 0, 0,
    0, 1, 0, 1, 0, 1, 0, 1, 0, 1, 0, 1, 0, 1, 0, 1,
    0, 0, 2, 2, 0, 0, 2, 2, 0, 0, 2, 2, 0, 0, 2, 2,
    0, 1, 2, 3, 0, 1, 2, 3, 0, 1, 2, 3, 0, 1, 2, 3,
    0, 0, 0, 0, 4, 4, 4, 4, 0, 0, 0, 0, 4, 4, 4, 4,
    0, 1, 0, 1, 4, 5, 4, 5, 0, 1, 0, 1, 4, 5, 4, 5,
    0, 0, 2, 2, 4, 4, 6, 6, 0, 0, 2, 2, 4, 4, 6, 6,
    0, 1, 2, 3, 4, 5, 6, 7, 0, 1, 2, 3, 4, 5, 6, 7,
    0, 0, 0, 0, 0, 0, 0, 0, 8, 8, 8, 8, 8, 8, 8, 8,
    0, 1, 0, 1, 0, 1, 0, 1, 8, 9, 8, 9, 8, 9, 8, 9,
    0, 0, 2, 2, 0, 0, 2, 2, 8, 8, 10, 10, 8, 8, 10, 10,
    0, 1, 2, 3, 0, 1, 2, 3, 8, 9, 10, 11, 8, 9, 10, 11,
    0, 0, 0, 0, 4, 4, 4, 4, 8, 8, 8, 8, 12, 12, 12, 12,
    0, 1, 0, 1, 4, 5, 4, 5, 8, 9, 8, 9, 12, 13, 12, 13,
    0, 0, 2, 2, 4, 4, 6, 6, 8, 8, 10, 10, 12, 12, 14, 14,
    0, 1, 2, 3, 4, 5, 6, 7, 8, 9, 10, 11, 12, 13, 14, 15 >>

\* a bitwise operation on two 16-bit numbers, four bits at a time
Nibbles(op, a, b) ==
    4096 * op[16 * (a \div 4096) + (b \div 4096) + 1]
    + 256 * op[16 * ((a \div 256) % 16) + ((b \div 256) % 16) + 1]
    + 16 * op[16 * ((a \div 16) % 16) + ((b \div 16) % 16) + 1]
    + op[16 * (a % 16) + (b % 16) + 1]

XorW(x, y) == <<Nibbles(XorNibble, x[1], y[1]), Nibbles(XorNibble, x[2], y[2])>>

AndW(x, y) == <<Nibbles(AndNibble, x[1], y[1]), Nibbles(AndNibble, x[2], y[2])>>

NotW(x) == <<65535 - x[1], 65535 - x[2]>>

\* addition modulo 2^32
AddW(x, y) ==
    LET lo == x[2] + y[2]
        hi == x[1] + y[1] + (lo \div 65536)
    IN  <<hi % 65536, lo % 65536>>

\* rotation to the right by n bits
RotR(x, n) ==
    LET h == IF n >= 16 THEN x[2] ELSE x[1]
        l == IF n >= 16 THEN x[1] ELSE x[2]
        k == n % 16
    IN  <<(h \div 2^k) + (l % 2^k) * 2^(16 - k),
          (l \div 2^k) + (h % 2^k) * 2^(16 - k)>>

\* shift to the right by n < 16 bits
ShR(x, n) ==
    <<x[1] \div 2^n, (x[2] \div 2^n) + (x[1] % 2^n) * 2^(16 - n)>>

\* the round constants of SHA-256
K256 == <<
    <<17034, 12184>>, <<28983, 17553>>, <<46528, 64463>>, <<59829, 56229>>,
    <<14678, 49755>>, <<23025, 4593>>, <<37439, 33444>>, <<43804, 24277>>,
    <<55303, 43672>>, <<4739, 23297>>, <<9265, 34238>>, <<21772, 32195>>,
    <<29374, 23924>>, <<32990, 45566>>, <<39900, 1703>>, <<49563, 61812>>,
    <<58523, 27073>>, <<61374, 18310>>, <<4033, 40390>>, <<9228, 41420>>,
    <<11753, 11375>>, <<19060, 33962>>, <<23728, 43484>>, <<30457, 35034>>,
    <<38974, 20818>>, <<43057, 50797>>, <<45059, 10184>>, <<48985, 32711>>,
    <<50912, 3059>>, <<54695, 37191>>, <<1738, 25425>>, <<5161, 10599>>,
    <<10167, 2693>>, <<11803, 8504>>, <<19756, 28156>>, <<21304, 3347>>,
    <<25866, 29524>>, <<30314, 2747>>, <<33218, 51502>>, <<37490, 11397>>,
    <<41663, 59553>>, <<43034, 26187>>, <<49739, 35696>>, <<51052, 20899>>,
    <<53650, 59417>>, <<54937, 1572>>, <<62478, 13701>>, <<4202, 41072>>,
    <<6564, 49430>>, <<7735, 27656>>, <<10056, 30540>>, <<13488, 48309>>,
    <<14620, 3251>>, <<20184, 43594>>, <<23452, 51791>>, <<26670, 28659>>,
    <<29839, 33518>>, <<30885, 25455>>, <<33992, 30740>>, <<36039, 520>>,
    <<37054, 65530>>, <<42064, 27883>>, <<48889, 41975>>, <<50801, 30962>> >>

\* the initial hash value of SHA-256
H256 == <<
    <<27145, 58983>>, <<47975, 44677>>, <<15470, 62322>>, <<42319, 62778>>,
    <<20750, 21119>>, <<39685, 26764>>, <<8067, 55723>>, <<23520, 52505>> >>

\* the message with its padding: a 1 bit, zeros, and the length in bits in
\* the last eight bytes (messages shorter than 8192 bytes)
Padded(bytes) ==
    LET n == Len(bytes)
    IN  bytes \o <<128>> \o [k \in 1..((119 - (n % 64)) % 64) |-> 0]
        \o <<0, 0, 0, 0, 0, 0, (8 * n) \div 256, (8 * n) % 256>>

\* the sixteen words of the b-th block
BlockWords(bytes, b) ==
    [t \in 1..16 |->
        LET at == 64 * (b - 1) + 4 * (t - 1)
        IN  <<256 * bytes[at + 1] + bytes[at + 2], 256 * bytes[at + 3] + bytes[at + 4]>>]

\* the message schedule
RECURSIVE Schedule(_)
Schedule(w) ==
    IF Len(w) = 64 THEN w
    ELSE LET t  == Len(w) + 1
             s0 == XorW(XorW(RotR(w[t - 15], 7), RotR(w[t - 15], 18)), ShR(w[t - 15], 3))
             s1 == XorW(XorW(RotR(w[t - 2], 17), RotR(w[t - 2], 19)), ShR(w[t - 2], 10))
         IN  Schedule(Append(w, AddW(AddW(s1, w[t - 7]), AddW(s0, w[t - 16]))))

\* the rounds t..64 of the compression function on the eight working
\* variables v
RECURSIVE Rounds(_, _, _)
Rounds(v, w, t) ==
    IF t > 64 \/ Len(v) # 8 THEN v
    ELSE LET S1  == XorW(XorW(RotR(v[5], 6), RotR(v[5], 11)), RotR(v[5], 25))
             ch  == XorW(AndW(v[5], v[6]), AndW(NotW(v[5]), v[7]))
             t1  == AddW(AddW(AddW(v[8], S1), AddW(ch, K256[t])), w[t])
             S0  == XorW(XorW(RotR(v[1], 2), RotR(v[1], 13)), RotR(v[1], 22))
             maj == XorW(XorW(AndW(v[1], v[2]), AndW(v[1], v[3])), AndW(v[2], v[3]))
         IN  Rounds(<<AddW(t1, AddW(S0, maj)), v[1], v[2], v[3],
                      AddW(v[4], t1), v[5], v[6], v[7]>>, w, t + 1)

\* the hash value after the blocks b.. of the padded message
RECURSIVE Blocks(_, _, _)
Blocks(h, bytes, b) ==
    IF 64 * (b - 1) >= Len(bytes) THEN h
    ELSE LET v == Rounds(h, Schedule(BlockWords(bytes, b)), 1)
         IN  Blocks([k \in 1..8 |-> AddW(h[k], v[k])], bytes, b + 1)

sha256(bytes) == Blocks(H256, Padded(bytes), 1)

HexDigits == <<"0", "1", "2", "3", "4", "5", "6", "7",
               "8", "9", "a", "b", "c", "d", "e", "f">>

\* the four hexadecimal digits of a 16-bit number
Hex16(n) ==
    <<HexDigits[(n \div 4096) + 1], HexDigits[((n \div 256) % 16) + 1],
      HexDigits[((n \div 16) % 16) + 1], HexDigits[(n % 16) + 1]>>

\* hexdigest(): the eight words of the hash value, eight digits each
hexdigest(h) ==
    LET RECURSIVE From(_)
        From(k) == IF k > Len(h) THEN <<>>
                   ELSE Hex16(h[k][1]) \o Hex16(h[k][2]) \o From(k + 1)
    IN  From(1)

\* (mutant) the last argument is left out of the hash
generate_event_idWithoutLast(args) ==
    SubSeq(hexdigest(sha256(encode(join(SubSeq(args, 1, Len(args) - 1), 1)))), 1, 16)

generate_event_id(args) == SubSeq(hexdigest(sha256(encode(join(args, 1)))), 1, 16)

----------------------------------------------------------------------------
(* generate_event_id called twice, on any of two scraper instances         *)
(* (SpecId)                                                                 *)

TitleText == <<"t", "i", "t", "l", "e">>
DifferentText == <<"d", "i", "f", "f", "e", "r", "e", "n", "t">>
Day2024 == <<"2", "0", "2", "4", "-", "0", "1", "-", "0", "1">>
Day2026 == <<"2", "0", "2", "6", "-", "0", "1", "-", "1", "8">>
FrankfurtText == <<"F", "r", "a", "n", "k", "f", "u", "r", "t">>
StadteventsName == <<"F", "r", "a", "n", "k", "f", "u", "r", "t", "e", "r", " ", "S", "t", "a", "d", "t", "e", "v", "e", "n", "t", "s">>

IdInputs ==
    {<<title, start_iso, source>> :
        title \in {TitleText, DifferentText},
        start_iso \in {Day2024, Day2026},
        source \in {FrankfurtText, StadteventsName}}

Scrapers == {"FrankfurtScraper", "WiesbadenScraper"}

InitId ==
    /\ result = NoResult
    /\ db = <<>>
    /\ clock = 0
    /\ used = 0
    /\ last = NoCall
    /\ prev = Earlier(NoCall)
    /\ NoSessions
    /\ NoDedup

\* scraper.generate_event_id(title, start_iso, source)
GenerateEventId ==
    /\ Len(result.rows) < 2
    /\ \E scraper \in Scrapers : \E args \in IdInputs :
          result' = [op |-> "generate_event_id", args |-> args,
                     rows |-> Append(result.rows,
                                     [self |-> scraper, args |-> args,
                                      id |-> generate_event_id(args)])]
    /\ UNCHANGED <<storeRest, concVars, dedupVars>>

NextId == GenerateEventId

SpecId == InitId /\ [][NextId]_vars

\* the positions at which two argument lists differ
Differing(args1, args2) == {k \in DOMAIN args1 : args1[k] # args2[k]}

\* C14: equal inputs give equal ids on any scraper instance, calls that differ
\* in exactly one of title, start and source give different ids, and an id is
\* 16 hexadecimal digits long.
C14_IdDeterminism ==
    result.op = "generate_event_id" =>
        /\ \A c \in SeqSet(result.rows) :
              Len(c.id) = 16 /\ SeqSet(c.id) \subseteq SeqSet(HexDigits)
        /\ \A c1, c2 \in SeqSet(result.rows) :
              /\ c1.args = c2.args => c1.id = c2.id
              /\ Cardinality(Differing(c1.args, c2.args)) = 1 => c1.id # c2.id

\* two instances were asked for the id of ("title", "2024-01-01", "Frankfurt")
\* and gave 2a2bd430fb3ec680
C14_Witness ==
    /\ result.op = "generate_event_id"
    /\ Len(result.rows) = 2
    /\ result.rows[1].self # result.rows[2].self
    /\ result.rows[1].args = <<TitleText, Day2024, FrankfurtText>>
    /\ result.rows[2].args = <<TitleText, Day2024, FrankfurtText>>
    /\ result.rows[2].id = <<"2", "a", "2", "b", "d", "4", "3", "0", "f", "b", "3", "e", "c", "6", "8", "0">>

----------------------------------------------------------------------------
(* FrankfurtScraper._parse_dates (src/scrapers/frankfurt_scraper.py).  A   *)
(* datetime at midnight is the record of its year, month and day.          *)

Digits == <<"0", "1", "2", "3", "4", "5", "6", "7", "8", "9">>

IsDigit(c) == \E k \in DOMAIN Digits : Digits[k] = c

\* \w
IsWord(c) ==
    \/ IsDigit(c)
    \/ c = "_"
    \/ \E k \in DOMAIN UpperCase : UpperCase[k] = c \/ LowerCase[k] = c

\* int(s) for a string of digits
RECURSIVE int(_)
int(s) ==
    IF s = <<>> THEN 0
    ELSE 10 * int(SubSeq(s, 1, Len(s) - 1))
         + (CHOOSE k \in DOMAIN Digits : Digits[k] = s[Len(s)]) - 1

\* the character of text at position i, "" where it has none
CharAt(text, i) == IF i \in DOMAIN text THEN text[i] ELSE ""

\* one or two digits from position i on with a "." behind them: their number,
\* 0 if there are none
DigitsDot(text, i) ==
    IF IsDigit(CharAt(text, i)) /\ IsDigit(CharAt(text, i + 1)) /\ CharAt(text, i + 2) = "."
    THEN 2
    ELSE IF IsDigit(CharAt(text, i)) /\ CharAt(text, i + 1) = "."
    THEN 1
    ELSE 0

\* a match of \b(\d{1,2})\.(\d{1,2})\.(\d{2})\b that starts at position i:
\* no match, or one match with its three groups and the position behind it
date_pattern(text, i) ==
    LET d == DigitsDot(text, i)
        m == DigitsDot(text, i + d + 1)
        y == i + d + 1 + m + 1
    IN  IF /\ ~IsWord(CharAt(text, i - 1))
           /\ d > 0
           /\ m > 0
           /\ IsDigit(CharAt(text, y))
           /\ IsDigit(CharAt(text, y + 1))
           /\ ~IsWord(CharAt(text, y + 2))
        THEN <<[day |-> SubSeq(text, i, i + d - 1),
                month |-> SubSeq(text, i + d + 1, i + d + m),
                year |-> SubSeq(text, y, y + 1),
                end |-> y + 2]>>
        ELSE <<>>

\* re.findall(date_pattern, text) from position i on
RECURSIVE findall(_, _)
findall(text, i) ==
    IF i > Len(text) THEN <<>>
    ELSE LET found == date_pattern(text, i)
         IN  IF found = <<>> THEN findall(text, i + 1)
             ELSE found \o findall(text, found[1].end)

IsLeap(year) == year % 4 = 0 /\ (year % 100 # 0 \/ year % 400 = 0)

DaysInMonth(year, month) ==
    IF month = 2 THEN (IF IsLeap(year) THEN 29 ELSE 28)
    ELSE IF month \in {4, 6, 9, 11} THEN 30
    ELSE 31

\* datetime(year, month, day): the datetime, or nothing where Python raises
\* ValueError
datetime(year, month, day) ==
    IF /\ year \in 1..9999
       /\ month \in 1..12
       /\ day \in 1..DaysInMonth(year, month)
    THEN <<[year |-> year, month |-> month, day |-> day]>>
    ELSE <<>>

\* d1 >= d2
NotBefore(d1, d2) ==
    \/ d1.year > d2.year
    \/ d1.year = d2.year /\ d1.month > d2.month
    \/ d1.year = d2.year /\ d1.month = d2.month /\ d1.day >= d2.day

\* the dates before it are skipped
FloorDate == [year |-> 2020, month |-> 1, day |-> 1]

\* (mutant) the first invalid date ends the loop
RECURSIVE ParseMatchesUntilInvalid(_, _)
ParseMatchesUntilInvalid(matches, k) ==
    IF k > Len(matches) THEN <<>>
    ELSE LET full_year == 2000 + int(matches[k].year)
             event_date == datetime(full_year, int(matches[k].month), int(matches[k].day))
         IN  IF event_date = <<>> THEN <<>>
             ELSE (IF NotBefore(event_date[1], FloorDate) THEN event_date ELSE <<>>)
                  \o ParseMatchesUntilInvalid(matches, k + 1)

\* the loop of _parse_dates over the matches from the k-th on
RECURSIVE ParseMatches(_, _)
ParseMatches(matches, k) ==
    IF k > Len(matches) THEN <<>>
    ELSE LET full_year == 2000 + int(matches[k].year)
             event_date == datetime(full_year, int(matches[k].month), int(matches[k].day))
         IN  (IF event_date # <<>> /\ NotBefore(event_date[1], FloorDate)
              THEN event_date ELSE <<>>)
             \o ParseMatches(matches, k + 1)

_parse_dates(text) == ParseMatches(findall(text, 1), 1)

\* two decimal digits of n
TwoDigits(n) == <<Digits[((n \div 10) % 10) + 1], Digits[(n % 10) + 1]>>

\* datetime.isoformat() of a datetime at midnight: YYYY-MM-DDT00:00:00
isoformat(d) ==
    TwoDigits(d.year \div 100) \o TwoDigits(d.year) \o <<"-">> \o TwoDigits(d.month)
    \o <<"-">> \o TwoDigits(d.day) \o <<"T", "0", "0", ":", "0", "0", ":", "0", "0">>

----------------------------------------------------------------------------
(* _parse_dates on the text of a card: pieces joined with " | "            *)
(* (SpecDates)                                                              *)

\* a piece of text and the day, month and two-digit year it names as a date
\* token, if it is one
Token(text, date) == [text |-> text, date |-> date]

Pieces ==
    {Token(<<"1", "8", ".", "1", ".", "2", "6">>, <<18, 1, 26>>),
     Token(<<"3", "0", ".", "2", ".", "2", "6">>, <<30, 2, 26>>),
     Token(<<"2", "5", ".", "3", ".", "2", "6">>, <<25, 3, 26>>),
     Token(<<"1", ".", "1", "3", ".", "2", "6">>, <<1, 13, 26>>),
     Token(<<"3", "1", ".", "1", "2", ".", "1", "9">>, <<31, 12, 19>>),
     Token(<<"1", ".", "1", ".", "2", "0">>, <<1, 1, 20>>),
     Token(<<"2", "9", ".", "2", ".", "2", "4">>, <<29, 2, 24>>),
     Token(<<"0", ".", "5", ".", "2", "6">>, <<0, 5, 26>>),
     Token(<<"0", "5", ".", "0", "3", ".", "2", "7">>, <<5, 3, 27>>),
     Token(<<"1", ".", "1", ".", "2", "0", "2", "6">>, <<>>),
     Token(<<"a", "1", "8", ".", "1", ".", "2", "6">>, <<>>)}

\* the pieces from the k-th on, joined with " | "
RECURSIVE CardText(_, _)
CardText(pieces, k) ==
    IF k > Len(pieces) THEN <<>>
    ELSE IF k = Len(pieces) THEN pieces[k].text
    ELSE pieces[k].text \o <<" ", "|", " ">> \o CardText(pieces, k + 1)

InitDates ==
    /\ \E n \in 0..MaxTokens : batch \in [1..n -> Pieces]
    /\ unique_events = <<>>
    /\ result = NoResult
    /\ db = <<>>
    /\ clock = 0
    /\ used = 0
    /\ last = NoCall
    /\ prev = Earlier(NoCall)
    /\ NoSessions

\* scraper._parse_dates(text)
ParseDates ==
    /\ result = NoResult
    /\ result' = [op |-> "_parse_dates", args |-> <<CardText(batch, 1)>>,
                  rows |-> _parse_dates(CardText(batch, 1))]
    /\ UNCHANGED <<dedupVars, storeRest, concVars>>

NextDates == ParseDates

SpecDates == InitDates /\ [][NextDates]_vars

\* day, month and two-digit year form a calendar date of the years 2000 to
\* 2099 that is not before 2020-01-01
KeptToken(date) ==
    /\ date # <<>>
    /\ date[3] >= 20
    /\ date[2] \in 1..12
    /\ date[1] >= 1
    /\ date[1] <= 31
    /\ date[2] \in {4, 6, 9, 11} => date[1] <= 30
    /\ date[2] = 2 => date[1] <= (IF date[3] % 4 = 0 THEN 29 ELSE 28)

\* C17: _parse_dates returns, in the order of the tokens, the date (year 2000
\* + YY) of every token that forms a valid calendar date not before
\* 2020-01-01, and drops every other token; a dropped token does not keep the
\* tokens behind it from being returned.
C17_InvalidDatesDropped ==
    result.op = "_parse_dates" =>
        LET kept == Pick(batch, {k \in DOMAIN batch : KeptToken(batch[k].date)}, 1)
        IN  result.rows = [k \in DOMAIN kept |->
                              [year |-> 2000 + kept[k].date[3],
                               month |-> kept[k].date[2],
                               day |-> kept[k].date[1]]]

\* 18.1.26 | 30.2.26 | 25.3.26 gave 18 January and 25 March 2026
C17_Witness ==
    /\ result.op = "_parse_dates"
    /\ result.args = <<CardText(<<Token(<<"1", "8", ".", "1", ".", "2", "6">>, <<18, 1, 26>>),
                                  Token(<<"3", "0", ".", "2", ".", "2", "6">>, <<30, 2, 26>>),
                                  Token(<<"2", "5", ".", "3", ".", "2", "6">>, <<25, 3, 26>>)>>, 1)>>
    /\ result.rows = <<[year |-> 2026, month |-> 1, day |-> 18],
                       [year |-> 2026, month |-> 3, day |-> 25]>>

----------------------------------------------------------------------------
(* validate_event and is_valid_event (src/utils/validators.py)             *)

\* the characters str.strip() removes
IsSpace(c) == c \in {" ", "\t", "\n", "\r"}

\* str.strip()
strip(s) ==
    LET Solid == {k \in DOMAIN s : ~IsSpace(s[k])}
    IN  IF Solid = {} THEN <<>>
        ELSE SubSeq(s, CHOOSE k \in Solid : \A m \in Solid : k <= m,
                       CHOOSE k \in Solid : \A m \in Solid : m <= k)

\* the first position from i on at which s has one of the characters of C,
\* Len(s) + 1 if there is none
RECURSIVE FindOneOf(_, _, _)
FindOneOf(s, C, i) ==
    IF i > Len(s) \/ s[i] \in C THEN i ELSE FindOneOf(s, C, i + 1)

IsLetter(c) == \E k \in DOMAIN UpperCase : UpperCase[k] = c \/ LowerCase[k] = c

\* urlparse(url): the scheme and the netloc
urlparse(url) ==
    LET colon == FindOneOf(url, {":"}, 1)
        named == /\ colon <= Len(url)
                 /\ colon > 1
                 /\ IsLetter(url[1])
                 /\ \A k \in 1..(colon - 1) :
                       IsLetter(url[k]) \/ IsDigit(url[k]) \/ url[k] \in {"+", "-", "."}
        scheme == IF named THEN lower(SubSeq(url, 1, colon - 1)) ELSE <<>>
        rest == IF named THEN SubSeq(url, colon + 1, Len(url)) ELSE url
        netloc == IF Len(rest) >= 2 /\ rest[1] = "/" /\ rest[2] = "/"
                  THEN SubSeq(rest, 3, FindOneOf(rest, {"/", "?", "#"}, 3) - 1)
                  ELSE <<>>
    IN  [scheme |-> scheme, netloc |-> netloc]

\* all([result.scheme, result.netloc])
Absolute(url) == urlparse(url).scheme # <<>> /\ urlparse(url).netloc # <<>>

ValidationError(field, message) == [field |-> field, message |-> message]

\* the errors of a rule: one error if the rule is violated
Check(violated, field, message) ==
    IF violated THEN <<ValidationError(field, message)>> ELSE <<>>

validate_event(event, strict) ==
    Check(Falsy(event.id), "id", "Event ID is required")
    \o Check(Falsy(event.title) \/ Falsy(strip(event.title)),
             "title", "Event title is required")
    \o Check(event.start_datetime = NoneDT,
             "start_datetime", "Start datetime is required")
    \o Check(Falsy(event.source), "source", "Event source is required")
    \o Check(/\ event.start_datetime # NoneDT
             /\ event.end_datetime # NoneDT
             /\ event.end_datetime < event.start_datetime,
             "end_datetime", "End datetime must be after start datetime")
    \o Check(~Falsy(event.url) /\ strict /\ ~Absolute(event.url),
             "url", "Invalid URL format")
    \o Check(~Falsy(event.image_url) /\ strict /\ ~Absolute(event.image_url),
             "image_url", "Invalid image URL format")
    \o Check(/\ ~Falsy(event.postal_code)
             /\ strict
             /\ (\E k \in DOMAIN event.postal_code : ~IsDigit(event.postal_code[k])
                    \/ Len(event.postal_code) # 5),
             "postal_code", "Invalid German postal code format (expected 5 digits)")

is_valid_event(event, strict) == Len(validate_event(event, strict)) = 0

----------------------------------------------------------------------------
(* validate_event and is_valid_event on one event (SpecValidate)           *)

Spaces == <<" ", " ">>
PaddedJazz == <<" ", "J", "a", "z", "z", " ">>
GoodUrl == <<"h", "t", "t", "p", "s", ":", "/", "/", "x", ".", "d", "e", "/", "a">>
BadUrl == <<"x", ".", "d", "e", "/", "a">>
GoodPostal == <<"6", "0", "3", "1", "1">>
ShortPostal == <<"6", "0", "3", "1", "x">>

ValidateInputs ==
    {[Event(id, title, start, end, NoneStr, NoneStr, NoneStr, source)
         EXCEPT !.url = url, !.postal_code = postal_code] :
        id \in {NoneStr, <<>>, <<"a">>},
        title \in {NoneStr, <<>>, Spaces, PaddedJazz},
        start \in {NoneDT, 2},
        end \in {NoneDT, 1, 2, 3},
        source \in {NoneStr, <<>>, Spaces, Ffm},
        url \in {NoneStr, GoodUrl, BadUrl},
        postal_code \in {NoneStr, GoodPostal, ShortPostal}}

InitValidate ==
    /\ \E event \in ValidateInputs : batch = <<event>>
    /\ unique_events = <<>>
    /\ result = NoResult
    /\ db = <<>>
    /\ clock = 0
    /\ used = 0
    /\ last = NoCall
    /\ prev = Earlier(NoCall)
    /\ NoSessions

\* validate_event(event, strict)
ValidateEvent ==
    /\ result = NoResult
    /\ \E strict \in BOOLEAN :
          result' = [op |-> "validate_event", args |-> <<batch[1], strict>>,
                     rows |-> validate_event(batch[1], strict)]
    /\ UNCHANGED <<dedupVars, storeRest, concVars>>

\* is_valid_event(event, strict)
IsValidEvent ==
    /\ result = NoResult
    /\ \E strict \in BOOLEAN :
          result' = [op |-> "is_valid_event", args |-> <<batch[1], strict>>,
                     rows |-> <<is_valid_event(batch[1], strict)>>]
    /\ UNCHANGED <<dedupVars, storeRest, concVars>>

NextValidate == ValidateEvent \/ IsValidEvent

SpecValidate == InitValidate /\ [][NextValidate]_vars

\* missing, empty or nothing but whitespace
BlankText(s) == s = NoneStr \/ \A k \in DOMAIN s : s[k] = " "

\* the fields of the always-on rules that the event violates
Violated(event) ==
    {f \in {"id", "title", "start_datetime", "source", "end_datetime"} :
        \/ f = "id" /\ Falsy(event.id)
        \/ f = "title" /\ BlankText(event.title)
        \/ f = "start_datetime" /\ event.start_datetime = NoneDT
        \/ f = "source" /\ BlankText(event.source)
        \/ f = "end_datetime" /\ event.start_datetime # NoneDT
              /\ event.end_datetime # NoneDT
              /\ event.end_datetime < event.start_datetime}

\* the fields named by a list of errors
Fields(errors) == {errors[k].field : k \in DOMAIN errors}

\* C18 (as claimed): the list validate_event returns has one error for each
\* violated always-on rule (id missing, title blank, start missing, source
\* blank, end before start), is_valid_event is true exactly if the list is
\* empty, and the event is left as it was.
C18_AllViolationsListed ==
    /\ result.op = "validate_event" =>
          /\ \A f \in Violated(result.args[1]) :
                Cardinality({k \in DOMAIN result.rows : result.rows[k].field = f}) = 1
          /\ batch = <<result.args[1]>>
    /\ result.op = "is_valid_event" =>
          /\ result.rows[1] = (validate_event(result.args[1], result.args[2]) = <<>>)
          /\ batch = <<result.args[1]>>

\* C19 (as claimed): in both modes a title or a source that is empty or only
\* whitespace gets a violation for that field, and end_datetime equal to
\* start_datetime gets no end_datetime violation.
C19_BlankTextRejected ==
    result.op = "validate_event" =>
        LET event == result.args[1]
        IN  /\ ~Falsy(event.title) /\ BlankText(event.title) => "title" \in Fields(result.rows)
            /\ Falsy(event.title) => "title" \in Fields(result.rows)
            /\ ~Falsy(event.source) /\ BlankText(event.source) => "source" \in Fields(result.rows)
            /\ Falsy(event.source) => "source" \in Fields(result.rows)
            /\ event.start_datetime # NoneDT /\ event.end_datetime = event.start_datetime
                  => "end_datetime" \notin Fields(result.rows)

----------------------------------------------------------------------------
(* FrankfurtScraper: from the anchors of the listing page to Events        *)
(* (src/scrapers/frankfurt_scraper.py).  An anchor is the record of its    *)
(* href, the src of its <img> (NoneStr: no image), the text of its <h3>    *)
(* (NoneStr: no <h3>), the text node behind the <h3>, and what the detail  *)
(* page behind the href shows: a price cell and a description meta tag     *)
(* (NoneStr: none).                                                        *)

Anchor(href, src, h3, text, price, description) ==
    [href |-> href, src |-> src, h3 |-> h3, text |-> text,
     price |-> price, description |-> description]

\* s.startswith(prefix) from position i on
StartsWith(s, prefix, i) ==
    /\ i + Len(prefix) - 1 <= Len(s)
    /\ SubSeq(s, i, i + Len(prefix) - 1) = prefix

\* str.find: the first position from i on at which sub starts, 0 if none
RECURSIVE Find(_, _, _)
Find(s, sub, i) ==
    IF i + Len(sub) - 1 > Len(s) THEN 0
    ELSE IF StartsWith(s, sub, i) THEN i
    ELSE Find(s, sub, i + 1)

\* how many characters from position i on are digits (\d+)
RECURSIVE SpanDigits(_, _)
SpanDigits(s, i) == IF IsDigit(CharAt(s, i)) THEN 1 + SpanDigits(s, i + 1) ELSE 0

\* how many characters from position i on are word characters (\w+)
RECURSIVE SpanWord(_, _)
SpanWord(s, i) == IF IsWord(CharAt(s, i)) THEN 1 + SpanWord(s, i + 1) ELSE 0

\* how many characters from position i on are whitespace (\s+)
RECURSIVE SpanSpace(_, _)
SpanSpace(s, i) ==
    IF i <= Len(s) /\ IsSpace(s[i]) THEN 1 + SpanSpace(s, i + 1) ELSE 0

DatumPrefix == <<"/", "D", "a", "t", "u", "m", "/">>

\* re.compile(r"/Datum/\d+-\w+-\d+/") matches at position i
DatumAt(href, i) ==
    LET a == i + Len(DatumPrefix)
        b == a + SpanDigits(href, a)
        c == b + 1 + SpanWord(href, b + 1)
        d == c + 1 + SpanDigits(href, c + 1)
    IN  /\ StartsWith(href, DatumPrefix, i)
        /\ b > a
        /\ CharAt(href, b) = "-"
        /\ c > b + 1
        /\ CharAt(href, c) = "-"
        /\ d > c + 1
        /\ CharAt(href, d) = "/"

\* _find_event_cards: the anchors whose href the pattern is found in
_find_event_cards(anchors) ==
    Pick(anchors, {k \in DOMAIN anchors :
                      \E i \in DOMAIN anchors[k].href : DatumAt(anchors[k].href, i)}, 1)

base_url == <<"h", "t", "t", "p", "s", ":", "/", "/", "w", "w", "w", ".",
              "f", "r", "a", "n", "k", "f", "u", "r", "t", "e", "r", "-",
              "s", "t", "a", "d", "t", "e", "v", "e", "n", "t", "s", ".", "d", "e">>

\* urljoin(base_url, url) for a url that is a path ("/a", "a"), names a host
\* ("//host/a") or has a scheme of its own; base_url has no path
urljoin(base, url) ==
    IF url = <<>> THEN base
    ELSE IF urlparse(url).scheme # <<>> THEN url
    ELSE IF StartsWith(url, <<"/", "/">>, 1) THEN <<"h", "t", "t", "p", "s", ":">> \o url
    ELSE IF url[1] = "/" THEN base \o url
    ELSE base \o <<"/">> \o url

\* `if url and not url.startswith("http"): url = urljoin(self.base_url, url)`
Resolved(url) ==
    IF url # <<>> /\ ~StartsWith(url, <<"h", "t", "t", "p">>, 1)
    THEN urljoin(base_url, url)
    ELSE url

\* card.get_text(separator=" ", strip=True): the text nodes stripped, the
\* empty ones left out, the others joined with " "
get_text(card) ==
    LET head == IF card.h3 = NoneStr THEN <<>> ELSE strip(card.h3)
        tail == strip(card.text)
    IN  IF head = <<>> THEN tail
        ELSE IF tail = <<>> THEN head
        ELSE head \o <<" ">> \o tail

\* re.sub(r"^Neu\s+", "", title, flags=re.IGNORECASE)
WithoutNeu(title) ==
    LET n == SpanSpace(title, 4)
    IN  IF Len(title) >= 3 /\ lower(SubSeq(title, 1, 3)) = <<"n", "e", "u">> /\ n > 0
        THEN SubSeq(title, 4 + n, Len(title))
        ELSE title

\* re.sub(r"\s+", " ", text)
RECURSIVE Collapsed(_, _)
Collapsed(text, i) ==
    IF i > Len(text) THEN <<>>
    ELSE IF IsSpace(text[i]) THEN <<" ">> \o Collapsed(text, i + SpanSpace(text, i))
    ELSE <<text[i]>> \o Collapsed(text, i + 1)

TermineIn == <<"T", "e", "r", "m", "i", "n", "e", " ", "i", "n">>

\* _extract_title: NoneStr for None
_extract_title(card) ==
    IF card.h3 # NoneStr
    THEN LET title == WithoutNeu(strip(card.h3))
         IN  IF title # <<>> THEN title ELSE NoneStr
    ELSE LET whole == get_text(card)
             at == Find(whole, TermineIn, 1)
             before == IF at > 0 THEN strip(SubSeq(whole, 1, at - 1)) ELSE whole
             text == strip(Collapsed(WithoutNeu(before), 1))
         IN  IF text # <<>> THEN text ELSE NoneStr

\* re.search(r"Termine in ([^:]+):", text) from position i on: group(1),
\* NoneStr for no match
RECURSIVE SearchLocation(_, _)
SearchLocation(text, i) ==
    LET at == Find(text, TermineIn \o <<" ">>, i)
        from == at + Len(TermineIn) + 1
        colon == FindOneOf(text, {":"}, from)
    IN  IF at = 0 \/ colon > Len(text) THEN NoneStr
        ELSE IF colon > from THEN SubSeq(text, from, colon - 1)
        ELSE SearchLocation(text, at + 1)

\* _extract_location: NoneStr for None
_extract_location(text) ==
    LET group == SearchLocation(text, 1)
    IN  IF group = NoneStr THEN NoneStr ELSE strip(group)

\* date.toordinal(): the days from 0001-01-01, which is day 1
toordinal(d) ==
    LET y == d.year - 1
        before == [m \in 1..12 |-> IF m < d.month THEN DaysInMonth(d.year, m) ELSE 0]
    IN  365 * y + (y \div 4) - (y \div 100) + (y \div 400)
        + before[1] + before[2] + before[3] + before[4] + before[5] + before[6]
        + before[7] + before[8] + before[9] + before[10] + before[11]
        + d.day

\* a datetime at midnight as the table and the Deduplicator hold instants:
\* in minutes, from the date before which _parse_dates returns none
Instant(d) == (toordinal(d) - toordinal(FloorDate)) * 1440

FrankfurtAmMain == <<"F", "r", "a", "n", "k", "f", "u", "r", "t", " ",
                     "a", "m", " ", "M", "a", "i", "n">>

\* _fetch_event_details(url): the price and the description of the detail
\* page, each only if the page has it
_fetch_event_details(card) == [price |-> card.price, description |-> card.description]

\* `details = {}`: details.get(...) is None
NoDetails == [price |-> NoneStr, description |-> NoneStr]

\* (mutant) the description of the detail page is hashed into the id
event_idWithDescription(title, event_date, name, details) ==
    generate_event_id(<<title, isoformat(event_date), name, details.description>>)

\* (mutant) the date of the occurrence is not hashed into the id
event_idWithoutDate(title, event_date, name, details) ==
    generate_event_id(<<title, name>>)

\* self.generate_event_id(title, event_date.isoformat(), self.name)
event_id(title, event_date, name, details) ==
    generate_event_id(<<title, isoformat(event_date), name>>)

\* _parse_event_card(card) of a scraper named name: one Event for each date
\* in the text of the card, none if the card has no title or no date
_parse_event_card(card, name, fetch_details) ==
    LET url == Resolved(card.href)
        title == _extract_title(card)
        image_url == IF Falsy(card.src) THEN NoneStr ELSE Resolved(card.src)
        card_text == get_text(card)
        dates == _parse_dates(card_text)
        location == _extract_location(card_text)
        details == IF fetch_details /\ url # <<>>
                   THEN _fetch_event_details(card) ELSE NoDetails
    IN  IF title = NoneStr \/ dates = <<>> THEN <<>>
        ELSE [k \in DOMAIN dates |->
                [Event(event_id(title, dates[k], name, details), title,
                       Instant(dates[k]), NoneDT, FrankfurtAmMain, NoneStr,
                       details.price, name)
                    EXCEPT !.description = details.description,
                           !.location = location,
                           !.url = url,
                           !.image_url = image_url]]

\* what fetch_page returned: None, or the soup with its anchors in order
NoPage == [fetched |-> FALSE, anchors |-> <<>>]

Soup(anchors) == [fetched |-> TRUE, anchors |-> anchors]

\* urljoin(base_url, url) raises ValueError ("Invalid IPv6 URL"): url names
\* a host ("//host...") in which one of "[" and "]" occurs without the other
JoinRaises(url) ==
    /\ StartsWith(url, <<"/", "/">>, 1)
    /\ LET rest == SubSeq(url, 3, Len(url))
           end == Find(rest, <<"/">>, 1)
           netloc == IF end = 0 THEN rest ELSE SubSeq(rest, 1, end - 1)
       IN  ("[" \in SeqSet(netloc)) # ("]" \in SeqSet(netloc))

\* _parse_event_card(card) raises: at the urljoin of the href, or, once the
\* card has a title, at the urljoin of the image's src
CardRaises(card) ==
    \/ JoinRaises(card.href)
    \/ /\ _extract_title(card) # NoneStr
       /\ ~Falsy(card.src)
       /\ JoinRaises(card.src)

\* the loop of scrape over the cards from the k-th on; `except Exception:
\* continue` leaves out a card whose parsing raises
RECURSIVE ParseCards(_, _, _, _)
ParseCards(event_cards, name, fetch_details, k) ==
    IF k > Len(event_cards) THEN <<>>
    ELSE (IF CardRaises(event_cards[k]) THEN <<>>
          ELSE _parse_event_card(event_cards[k], name, fetch_details))
         \o ParseCards(event_cards, name, fetch_details, k + 1)

\* FrankfurtScraper.scrape() when the listing page is soup
scrape(soup, name, fetch_details) ==
    IF ~soup.fetched THEN <<>>
    ELSE ParseCards(_find_event_cards(soup.anchors), name, fetch_details, 1)

----------------------------------------------------------------------------
(* _parse_event_card and scrape on a listing page (SpecScrape)             *)

Jan18 == Token(<<"1", "8", ".", "1", ".", "2", "6">>, <<18, 1, 26>>)
Jan18Padded == Token(<<"1", "8", ".", "0", "1", ".", "2", "6">>, <<18, 1, 26>>)
Mar25 == Token(<<"2", "5", ".", "3", ".", "2", "6">>, <<25, 3, 26>>)
Feb29 == Token(<<"2", "9", ".", "2", ".", "2", "4">>, <<29, 2, 24>>)
Feb30 == Token(<<"3", "0", ".", "2", ".", "2", "6">>, <<30, 2, 26>>)

\* the date tokens of a card
TokenLists ==
    {<<>>, <<Jan18>>, <<Jan18, Mar25>>, <<Jan18, Jan18Padded>>, <<Jan18, Jan18>>,
     <<Jan18, Mar25, Feb29>>, <<Jan18, Feb30, Mar25>>}

FivePrice == <<"5", " ", "euro">>   \* "euro": the euro sign
NinePrice == <<"9", " ", "euro">>
LiveText == <<"L", "i", "v", "e">>
OpenAirText == <<"O", "p", "e", "n", " ", "a", "i", "r">>
JazzHref == <<"/", "D", "a", "t", "u", "m", "/", "1", "-", "J", "a", "z", "z", "-", "2", "/">>
OperHref == <<"d", "e", "/", "D", "a", "t", "u", "m", "/", "3", "-", "O", "p", "e", "r", "-", "4", "/">>
ImageSrc == <<"/", "i", ".", "p", "n", "g">>
InlineSrc == <<"d", "a", "t", "a", ":", "i", "m", "a", "g", "e", "/", "p", "n", "g", ";", "b", "a", "s", "e", "6", "4", ",", "A", "A">>

\* a card with an <h3> ("Neu" is the badge), an image and a detail page
JazzCard(tokens, src, price, description) ==
    Anchor(JazzHref, src, <<"N", "e", "u", " ", "J", "a", "z", "z">>,
           <<"T", "e", "r", "m", "i", "n", "e", " ", "i", "n", " ", "M", "a", "i", "n", "z", ":", " ">> \o CardText(tokens, 1), price, description)

\* a card without <h3> and without image, whose detail page has neither
OperCard(tokens) ==
    Anchor(OperHref, NoneStr, NoneStr,
           <<" ", "O", "p", "e", "r", " ", " ", "T", "e", "r", "m", "i", "n", "e", " ", "i", "n", " ", "H", "a", "n", "a", "u", " ", ":", " ">> \o CardText(tokens, 1), NoneStr, NoneStr)

\* a card whose <h3> is empty, and an anchor that is no event card
EmptyTitleCard ==
    Anchor(JazzHref, NoneStr, <<>>, <<"T", "e", "r", "m", "i", "n", "e", " ", "i", "n", " ", "M", "a", "i", "n", "z", ":", " ">> \o Jan18.text, NoneStr, NoneStr)

AboutLink == Anchor(<<"/", "a", "b", "o", "u", "t", ".", "h", "t", "m", "l">>, NoneStr, NoneStr, <<"O", "p", "e", "r", " ", "1", "8", ".", "1", ".", "2", "6">>, NoneStr, NoneStr)

MaxCards == 2   \* most anchors of a listing page with more than one

Cards ==
    {JazzCard(tokens, ImageSrc, FivePrice, LiveText) : tokens \in TokenLists}
    \cup {OperCard(tokens) : tokens \in TokenLists}
    \cup {EmptyTitleCard, AboutLink}

PageCards ==
    {JazzCard(<<Jan18, Mar25>>, ImageSrc, FivePrice, LiveText),
     JazzCard(<<Jan18>>, InlineSrc, NinePrice, OpenAirText),
     OperCard(<<Jan18>>),
     AboutLink}

\* the listing pages: fetch_page failed, one anchor, or some of PageCards
Pages ==
    {NoPage}
    \cup {Soup(<<card>>) : card \in Cards}
    \cup {Soup(anchors) : anchors \in UNION {[1..n -> PageCards] : n \in 0..MaxCards}}

InitScrape ==
    /\ batch \in Pages
    /\ unique_events = <<>>
    /\ result = NoResult
    /\ db = <<>>
    /\ clock = 0
    /\ used = 0
    /\ last = NoCall
    /\ prev = Earlier(NoCall)
    /\ NoSessions

\* scraper._parse_event_card(card) for an anchor of the page
ParseEventCard ==
    /\ result = NoResult
    /\ \E k \in DOMAIN batch.anchors : \E fetch_details \in BOOLEAN :
          result' = [op |-> "_parse_event_card",
                     args |-> <<batch.anchors[k], fetch_details>>,
                     rows |-> _parse_event_card(batch.anchors[k], StadteventsName,
                                                fetch_details)]
    /\ UNCHANGED <<dedupVars, storeRest, concVars>>

\* scraper.scrape()
Scrape ==
    /\ result = NoResult
    /\ \E fetch_details \in BOOLEAN :
          result' = [op |-> "scrape", args |-> <<batch, fetch_details>>,
                     rows |-> scrape(batch, StadteventsName, fetch_details)]
    /\ UNCHANGED <<dedupVars, storeRest, concVars>>

NextScrape == ParseEventCard \/ Scrape

SpecScrape == InitScrape /\ [][NextScrape]_vars

\* the date tokens of a card: what the date pattern finds in its text, each
\* as day, month and two-digit year
DateTokens(card) ==
    LET found == findall(get_text(card), 1)
    IN  [k \in DOMAIN found |->
            <<int(found[k].day), int(found[k].month), int(found[k].year)>>]

\* a listing with a title whose date tokens each form a valid calendar date
\* on or after the floor date
Listing(card) ==
    /\ _extract_title(card) # NoneStr
    /\ \A k \in DOMAIN DateTokens(card) : KeptToken(DateTokens(card)[k])

\* the occurrences share title, location, url, image url and source
SharedFields(rows) ==
    \A i, j \in DOMAIN rows :
        /\ rows[i].title = rows[j].title
        /\ rows[i].location = rows[j].location
        /\ rows[i].url = rows[j].url
        /\ rows[i].image_url = rows[j].image_url
        /\ rows[i].source = rows[j].source

\* the k-th occurrence starts on the date of the k-th token
OnePerToken(rows, tokens) ==
    /\ Len(rows) = Len(tokens)
    /\ \A k \in DOMAIN rows :
          rows[k].start_datetime =
              Instant([year |-> 2000 + tokens[k][3], month |-> tokens[k][2],
                       day |-> tokens[k][1]])

\* C16 (as claimed): for a listing with a title and n date tokens that each
\* form a valid calendar date on or after the floor date, _parse_event_card
\* returns n occurrences, one per token, with pairwise distinct ids and the
\* same title, location, url, image url and source; the occurrences one
\* scrape() returns have pairwise distinct ids.
C16_MultiDateExpansion ==
    /\ result.op = "_parse_event_card" /\ Listing(result.args[1]) =>
          /\ OnePerToken(result.rows, DateTokens(result.args[1]))
          /\ SharedFields(result.rows)
          /\ \A i, j \in DOMAIN result.rows :
                i # j => result.rows[i].id # result.rows[j].id
    /\ result.op = "scrape" =>
          \A i, j \in DOMAIN result.rows :
              i # j => result.rows[i].id # result.rows[j].id

\* C16 (amended): for such a listing _parse_event_card returns n occurrences,
\* one per token, with the same title, location, url, image url and source,
\* and two of them have the same id exactly if their tokens name the same
\* date; two occurrences one scrape() returns have the same id exactly if
\* they have the same title and the same start.
C16_MultiDateExpansionByDate ==
    /\ result.op = "_parse_event_card" /\ Listing(result.args[1]) =>
          /\ OnePerToken(result.rows, DateTokens(result.args[1]))
          /\ SharedFields(result.rows)
          /\ \A i, j \in DOMAIN result.rows :
                result.rows[i].id = result.rows[j].id
                    <=> DateTokens(result.args[1])[i] = DateTokens(result.args[1])[j]
    /\ result.op = "scrape" =>
          \A i, j \in DOMAIN result.rows :
              result.rows[i].id = result.rows[j].id
                  <=> /\ result.rows[i].title = result.rows[j].title
                      /\ result.rows[i].start_datetime = result.rows[j].start_datetime

\* the card "Neu Jazz" with 18.1.26 | 25.3.26 | 29.2.24 gave three
\* occurrences titled Jazz with three ids
C16_Witness ==
    /\ result.op = "_parse_event_card"
    /\ result.args[1] = JazzCard(<<Jan18, Mar25, Feb29>>, ImageSrc, FivePrice, LiveText)
    /\ Len(result.rows) = 3
    /\ result.rows[1].title = Jazz
    /\ result.rows[1].id = <<"4", "9", "4", "e", "4", "6", "e", "d", "8", "8", "1", "5", "c", "b", "8", "2">>
    /\ result.rows[2].id = <<"9", "8", "b", "9", "d", "0", "1", "3", "a", "f", "9", "e", "5", "9", "e", "a">>
    /\ result.rows[3].id = <<"d", "c", "2", "0", "0", "6", "3", "5", "5", "d", "f", "a", "7", "2", "b", "7">>

----------------------------------------------------------------------------
(* The runners: run_all_scrapers (src/scrapers/run_all.py) and             *)
(* run_specific_scraper (src/scrapers/run_specific.py) on the sources of   *)
(* config/sources.yaml, the listing page of the site and the table          *)
(* (SpecRun).  batch is the listing page as the site serves it.            *)

MaxRuns == 2   \* runs of the runners, one after the other

SCRAPER_MAP == {"frankfurt_scraper", "wiesbaden_scraper", "tourismus_scraper"}

\* an entry of sources.yaml
Source(name, scraper, enabled) == [name |-> name, scraper |-> scraper, enabled |-> enabled]

FrankfurtSource == Source(<<"F", "r", "a", "n", "k", "f", "u", "r", "t">>, "frankfurt_scraper", TRUE)
FrankfurtOff == Source(<<"F", "r", "a", "n", "k", "f", "u", "r", "t">>, "frankfurt_scraper", FALSE)
WiesbadenSource == Source(<<"W", "i", "e", "s", "b", "a", "d", "e", "n">>, "wiesbaden_scraper", TRUE)
RheingauSource == Source(<<"R", "h", "e", "i", "n", "g", "a", "u">>, "tourismus_scraper", TRUE)
OtherSource == Source(<<"O", "t", "h", "e", "r">>, "other_scraper", TRUE)

SourceLists ==
    {<<WiesbadenSource, FrankfurtSource, RheingauSource>>,
     <<FrankfurtOff, OtherSource>>}

\* the listing "Jazz" under the title "Jazzy"
JazzyCard(tokens) ==
    [JazzCard(tokens, ImageSrc, FivePrice, LiveText)
        EXCEPT !.h3 = <<"J", "a", "z", "z", "y">>]

\* the listing page: a listing on two dates, the same listing with a new
\* price and description, a page with an inline image, one date twice and a
\* second title, the listing of one date under a title one letter longer, and
\* a page that cannot be fetched
Sites ==
    {Soup(<<JazzCard(<<Jan18, Mar25>>, ImageSrc, FivePrice, LiveText)>>),
     Soup(<<JazzCard(<<Jan18, Mar25>>, ImageSrc, NinePrice, OpenAirText)>>),
     Soup(<<JazzCard(<<Jan18, Jan18Padded>>, InlineSrc, NinePrice, NoneStr),
            OperCard(<<Jan18>>)>>),
     Soup(<<JazzyCard(<<Jan18>>)>>),
     NoPage}

\* FrankfurtScraper().scrape() on each of the pages (fetch_details is True)
FrankfurtScrapes == [soup \in Sites |-> scrape(soup, StadteventsName, TRUE)]

\* scraper.scrape() of the scraper class a source names
ScrapeOf(source, soup) ==
    IF source.scraper = "frankfurt_scraper" THEN FrankfurtScrapes[soup] ELSE <<>>

\* the loop of run_all_scrapers over the sources from the k-th on: all_events
RECURSIVE AllEvents(_, _, _)
AllEvents(sources, soup, k) ==
    IF k > Len(sources) THEN <<>>
    ELSE (IF sources[k].enabled /\ sources[k].scraper \in SCRAPER_MAP
          THEN ScrapeOf(sources[k], soup) ELSE <<>>)
         \o AllEvents(sources, soup, k + 1)

\* run_all_scrapers: what it hands to deduplicate and to add_events, the
\* outcome of add_events, and what it returns
run_all_scrapers(sources, soup, tbl, t) ==
    LET all_events == AllEvents(sources, soup, 1)
        unique == deduplicate(all_events)
    IN  [all_events |-> all_events, unique_events |-> unique,
         added |-> add_events(tbl, unique, t), ret |-> Len(unique)]

\* run_specific_scraper: the source of the given name (the first one), what
\* add_events is handed if the source and its scraper are known, and what the
\* call returns: 0 also when add_events raises
run_specific_scraper(source_name, sources, soup, tbl, t) ==
    LET Named == {k \in DOMAIN sources : sources[k].name = source_name}
        known == /\ Named # {}
                 /\ sources[CHOOSE k \in Named : \A m \in Named : k <= m].scraper
                        \in SCRAPER_MAP
        source == sources[CHOOSE k \in Named : \A m \in Named : k <= m]
        events == IF known THEN ScrapeOf(source, soup) ELSE <<>>
        added == add_events(tbl, events, t)
    IN  [stored |-> known, events |-> events, added |-> added,
         ret |-> IF known /\ added.ok THEN Len(events) ELSE 0]

InitRun ==
    /\ batch \in Sites
    /\ unique_events = <<>>
    /\ result = NoResult
    /\ db = <<>>
    /\ clock = 0
    /\ used = 0
    /\ last = NoCall
    /\ prev = Earlier(NoCall)
    /\ NoSessions

\* the add_events call of a run
Stored(events, added) ==
    /\ db' = added.tbl
    /\ clock' = added.t
    /\ last' = [op |-> "add_events", events |-> events, cutoff |-> NoneDT,
                ok |-> added.ok, ret |-> added.count, pre |-> db, t0 |-> clock]
    /\ prev' = Earlier(last)

RunAllScrapers ==
    /\ used < MaxRuns
    /\ \E sources \in SourceLists :
          \E run \in {run_all_scrapers(sources, batch, db, clock)} :
              /\ Stored(run.unique_events, run.added)
              /\ unique_events' = run.unique_events
              /\ result' = [op |-> "run_all_scrapers", args |-> <<sources>>,
                            rows |-> run.all_events]
    /\ used' = used + 1
    /\ UNCHANGED <<batch, concVars>>

RunSpecificScraper ==
    /\ used < MaxRuns
    /\ \E sources \in SourceLists :
          \E source_name \in {FrankfurtSource.name, OtherSource.name} :
              \E run \in {run_specific_scraper(source_name, sources, batch, db, clock)} :
                  /\ IF run.stored THEN Stored(run.events, run.added)
                     ELSE UNCHANGED <<db, clock, last, prev>>
                  /\ result' = [op |-> "run_specific_scraper",
                                args |-> <<source_name, sources>>, rows |-> run.events]
    /\ unique_events' = <<>>
    /\ used' = used + 1
    /\ UNCHANGED <<batch, concVars>>

\* the site changes its listing page, or stops or starts serving it
SiteChanges ==
    /\ batch' \in Sites \ {batch}
    /\ UNCHANGED <<unique_events, storeVars, concVars>>

NextRun == RunAllScrapers \/ RunSpecificScraper \/ SiteChanges

SpecRun == InitRun /\ [][NextRun]_vars

\* a run has just handed events to add_events, which returned
RunStored ==
    /\ result.op \in {"run_all_scrapers", "run_specific_scraper"}
    /\ Returned("add_events")
    /\ last.events # <<>>

\* the stored row is the same listing on the same date from the same source
SameListing(row, event) ==
    /\ row.title = event.title
    /\ row.start_datetime = event.start_datetime
    /\ row.source = event.source

\* C15: when a run scrapes a listing of which the table has a row with the
\* same title, start and source, the new occurrence has the id of that row
\* whatever its description and price are, add_events adds no row for it and
\* does not count it, and afterwards the row of that id carries the
\* description and the price of the occurrence, with the id and created_at it
\* had.
C15_RescrapeKeepsId ==
    RunStored =>
        \A k \in DOMAIN last.events : \A m \in DOMAIN last.pre :
            SameListing(last.pre[m], last.events[k]) =>
                /\ last.events[k].id = last.pre[m].id
                /\ Cardinality({n \in DOMAIN db : db[n].id = last.pre[m].id}) = 1
                /\ Len(db) - Len(last.pre) = Cardinality(Ids(last.events) \ Ids(last.pre))
                /\ last.ret = Len(db) - Len(last.pre)
                /\ RowOf(db, last.pre[m].id).description
                       = LastWith(last.events, last.pre[m].id).description
                /\ RowOf(db, last.pre[m].id).price
                       = LastWith(last.events, last.pre[m].id).price
                /\ RowOf(db, last.pre[m].id).created_at = last.pre[m].created_at

\* the listing stored with "5 euro" and "Live" was scraped again with
\* "9 euro" and "Open air": nothing was added and the rows carry the new
\* price and description
C15_Witness ==
    /\ RunStored
    /\ last.ret = 0
    /\ Len(last.pre) = 2
    /\ \A m \in DOMAIN last.pre :
          /\ last.pre[m].price = FivePrice
          /\ last.pre[m].description = LiveText
    /\ \A k \in DOMAIN last.events :
          /\ last.events[k].price = NinePrice
          /\ last.events[k].description = OpenAirText
    /\ \A n \in DOMAIN db :
          /\ db[n].price = NinePrice
          /\ db[n].description = OpenAirText
          /\ db[n].id = last.pre[n].id

\* C20 (as claimed): in a run no occurrence for which validate_event returns
\* errors, in either mode, is handed to deduplicate or to add_events, and
\* every stored row has a title that is not blank, a start and a source that
\* is not empty.
C20_ValidationPrecedes ==
    /\ result.op = "run_all_scrapers" =>
          \A k \in DOMAIN result.rows : \A strict \in BOOLEAN :
              validate_event(result.rows[k], strict) = <<>>
    /\ result.op \in {"run_all_scrapers", "run_specific_scraper"} /\ last.op = "add_events" =>
          \A k \in DOMAIN last.events : \A strict \in BOOLEAN :
              validate_event(last.events[k], strict) = <<>>
    /\ \A n \in DOMAIN db :
          /\ ~BlankText(db[n].title)
          /\ db[n].start_datetime # NoneDT
          /\ ~Falsy(db[n].source)

\* C21 (as claimed): the batch that a run of either runner hands to
\* add_events holds no two occurrences for which is_duplicate holds.
C21_DedupPrecedes ==
    (result.op \in {"run_all_scrapers", "run_specific_scraper"} /\ last.op = "add_events")
        => \A i, j \in DOMAIN last.events :
              i < j => ~is_duplicate(last.events[i], last.events[j])

\* C29: an occurrence that a run hands to add_events and whose id no stored
\* row has is inserted as a new row and counted, also when is_duplicate holds
\* for it and a stored row; that row stays as it was.
C29_DedupIsBatchLocal ==
    RunStored =>
        \A k \in DOMAIN last.events : \A m \in DOMAIN last.pre :
            (/\ last.events[k].id \notin Ids(last.pre)
             /\ is_duplicate(last.events[k], last.pre[m]))
                => /\ last.events[k].id \in Ids(db)
                   /\ RowOf(db, last.events[k].id).title = last.events[k].title
                   /\ last.pre[m] \in SeqSet(db)
                   /\ Len(db) > Len(last.pre)
                   /\ last.ret >= 1

\* "Jazz" on 18.1.26 was stored by one run and "Jazzy" on 18.1.26 by the
\* next: two rows with two ids for which is_duplicate holds
C29_Witness ==
    /\ RunStored
    /\ \E m \in DOMAIN last.pre : \E n \in DOMAIN db :
          /\ db[n].id \notin Ids(last.pre)
          /\ db[n].id \in Ids(last.events)
          /\ db[n].id # last.pre[m].id
          /\ db[n].title # last.pre[m].title
          /\ is_duplicate(db[n], last.pre[m])
          /\ last.pre[m] \in SeqSet(db)

----------------------------------------------------------------------------
(* run_all_scrapers when sources and the store fail (SpecSources).  batch  *)
(* holds what fetch_page returns for the listing page at the first and at  *)
(* the second fetch of a run.                                              *)

\* an entry of sources.yaml with the key url
WithUrl(source, url) ==
    [name |-> source.name, scraper |-> source.scraper,
     enabled |-> source.enabled, url |-> url]

\* a second entry that uses frankfurt_scraper
MirrorSource == Source(<<"M", "i", "r", "r", "o", "r">>, "frankfurt_scraper", TRUE)

\* the tourismus entry without url comes first, between the two others, with
\* url, or not at all
FailingSourceLists ==
    {<<RheingauSource, FrankfurtSource, MirrorSource>>,
     <<FrankfurtSource, RheingauSource, WiesbadenSource, MirrorSource>>,
     <<FrankfurtSource, WithUrl(RheingauSource, base_url), MirrorSource>>,
     <<FrankfurtOff, MirrorSource>>}

\* a card with a title and a date whose href urljoin cannot parse
BrokenCard ==
    [JazzCard(<<Jan18>>, ImageSrc, FivePrice, LiveText)
        EXCEPT !.href = <<"/", "/", "[", "/", "D", "a", "t", "u", "m", "/",
                          "1", "-", "J", "a", "z", "z", "-", "2", "/">>,
               !.h3 = Messe]

\* a card with a title and a date whose image has a src urljoin cannot parse
BrokenImageCard ==
    [JazzCard(<<Mar25>>, <<"/", "/", "a", "]">>, FivePrice, LiveText)
        EXCEPT !.h3 = Fest]

\* what a fetch of the listing page may return
FetchedPages ==
    {Soup(<<JazzCard(<<Jan18>>, ImageSrc, FivePrice, LiveText)>>),
     Soup(<<BrokenCard, OperCard(<<Jan18, Mar25>>), BrokenImageCard>>),
     Soup(<<JazzyCard(<<Jan18>>)>>),
     NoPage}

\* FrankfurtScraper().scrape() on each of them (fetch_details is True)
FetchedScrapes == [soup \in FetchedPages |-> scrape(soup, StadteventsName, TRUE)]

\* `scraper_class(name=source["name"], base_url=source["url"])` raises
\* KeyError for a tourismus entry without url
ScraperRaises(source) ==
    source.scraper = "tourismus_scraper" /\ "url" \notin DOMAIN source

\* the source is run and its scraper fetches the listing page
Fetches(source) ==
    source.enabled /\ source.scraper = "frankfurt_scraper"

\* what fetch_page returns to the scraper of the k-th source
PageOf(sources, pages, k) ==
    pages[1 + Cardinality({j \in 1..(k - 1) : Fetches(sources[j])})]

\* one pass of the loop of run_all_scrapers: what the k-th source adds to
\* all_events; nothing if it is skipped or if the try block raises
SourceEvents(sources, pages, k) ==
    IF ~sources[k].enabled \/ sources[k].scraper \notin SCRAPER_MAP THEN <<>>
    ELSE IF ScraperRaises(sources[k]) THEN <<>>
    ELSE IF sources[k].scraper = "frankfurt_scraper"
    THEN FetchedScrapes[PageOf(sources, pages, k)]
    ELSE <<>>

\* (mutant) the loop ends at the first source that fails
RECURSIVE AllEventsUntilFailure(_, _, _)
AllEventsUntilFailure(sources, pages, k) ==
    IF k > Len(sources) THEN <<>>
    ELSE IF \/ ScraperRaises(sources[k])
            \/ Fetches(sources[k]) /\ ~PageOf(sources, pages, k).fetched
    THEN <<>>
    ELSE SourceEvents(sources, pages, k) \o AllEventsUntilFailure(sources, pages, k + 1)

\* the loop of run_all_scrapers over the sources from the k-th on, each
\* fetch with its own outcome: all_events
RECURSIVE AllEventsFetched(_, _, _)
AllEventsFetched(sources, pages, k) ==
    IF k > Len(sources) THEN <<>>
    ELSE SourceEvents(sources, pages, k) \o AllEventsFetched(sources, pages, k + 1)

\* add_events(events) when the statement for the fault-th event raises
\* sqlite3.OperationalError (the file is locked by another writer, or cannot
\* be written): the session is rolled back; fault 0 is no fault
add_events_interrupted(tbl, events, t, fault) ==
    IF fault = 0 THEN add_events(tbl, events, t)
    ELSE LET r == Run(tbl, SubSeq(events, 1, fault - 1), 1, NoPend, 0, t)
         IN  [ok |-> FALSE, tbl |-> Close(tbl, [r EXCEPT !.ok = FALSE]),
              count |-> r.count, t |-> r.t]

InitSources ==
    /\ batch \in [1..2 -> FetchedPages]
    /\ unique_events = <<>>
    /\ result = NoResult
    /\ db = <<>>
    /\ clock = 0
    /\ used = 0
    /\ last = NoCall
    /\ prev = Earlier(NoCall)
    /\ NoSessions

\* run_all_scrapers(); when add_events raises, so does the run
RunAllSources ==
    /\ used < MaxRuns
    /\ \E sources \in FailingSourceLists :
          \E all_events \in {AllEventsFetched(sources, batch, 1)} :
              \E unique \in {deduplicate(all_events)} :
                  \E fault \in 0..Len(unique) :
                      /\ Stored(unique, add_events_interrupted(db, unique, clock, fault))
                      /\ unique_events' = unique
                      /\ result' = [op |-> "run_all_scrapers",
                                    args |-> <<sources, fault>>, rows |-> all_events]
    /\ used' = used + 1
    /\ UNCHANGED <<batch, concVars>>

NextSources == RunAllSources

SpecSources == InitSources /\ [][NextSources]_vars

\* what the cards of a fetched page list: title and start of each date of
\* each event card that has a title and whose urls can be resolved, in the
\* order of the page
RECURSIVE Listed(_, _)
Listed(event_cards, k) ==
    IF k > Len(event_cards) THEN <<>>
    ELSE LET card == event_cards[k]
             dates == _parse_dates(get_text(card))
         IN  (IF _extract_title(card) = NoneStr
                    \/ JoinRaises(card.href)
                    \/ (~Falsy(card.src) /\ JoinRaises(card.src))
              THEN <<>>
              ELSE [i \in DOMAIN dates |->
                       [title |-> _extract_title(card), start |-> Instant(dates[i])]])
             \o Listed(event_cards, k + 1)

\* what the k-th source of a run has to offer: the listings of its page if
\* the source is enabled, its scraper is constructed and the page is fetched
Offered(sources, pages, k) ==
    IF Fetches(sources[k]) /\ PageOf(sources, pages, k).fetched
    THEN Listed(_find_event_cards(PageOf(sources, pages, k).anchors), 1)
    ELSE <<>>

RECURSIVE OfferedFrom(_, _, _)
OfferedFrom(sources, pages, k) ==
    IF k > Len(sources) THEN <<>>
    ELSE Offered(sources, pages, k) \o OfferedFrom(sources, pages, k + 1)

\* the table has a row for the listing
Persisted(listing) ==
    \E n \in DOMAIN db :
        db[n].title = listing.title /\ db[n].start_datetime = listing.start

\* C22: in a run of run_all_scrapers a source whose fetch fails or whose
\* scraper raises adds nothing, and all_events is, source after source and
\* card after card, what the other enabled sources list on the pages they
\* fetched, a card whose parsing raises left out alone; all_events goes
\* through deduplicate to add_events, and when that returns, the table has,
\* for every listing of every such source, the row of the listing or of the
\* occurrence that deduplicate kept for it.
C22_FailedSourceIsEmptyBatch ==
    result.op = "run_all_scrapers" =>
        LET sources == result.args[1]
            offered == OfferedFrom(sources, batch, 1)
        IN  /\ Len(result.rows) = Len(offered)
            /\ \A i \in DOMAIN offered :
                  /\ result.rows[i].title = offered[i].title
                  /\ result.rows[i].start_datetime = offered[i].start
            /\ last.events = deduplicate(result.rows)
            /\ last.ok =>
                  \A i \in DOMAIN result.rows :
                      \E u \in DOMAIN last.events :
                          /\ is_duplicate(result.rows[i], last.events[u])
                          /\ last.events[u].id \in Ids(db)

\* the tourismus scraper raised, the first fetch failed, and the page of the
\* second fetch had a card that raises before and after the card of "Oper":
\* the two dates of "Oper" are what was stored
C22_Witness ==
    /\ result.op = "run_all_scrapers"
    /\ result.args[1] = <<RheingauSource, FrankfurtSource, MirrorSource>>
    /\ batch[1] = NoPage
    /\ batch[2] = Soup(<<BrokenCard, OperCard(<<Jan18, Mar25>>), BrokenImageCard>>)
    /\ last.ok
    /\ Len(db) = 2
    /\ \A n \in DOMAIN db : db[n].title = Oper

\* the listings of the source whose occurrence the failing statement was for
FailedAt(sources, pages, event) ==
    {k \in DOMAIN sources :
        \E i \in DOMAIN Offered(sources, pages, k) :
            /\ Offered(sources, pages, k)[i].title = event.title
            /\ Offered(sources, pages, k)[i].start = event.start_datetime}

\* C23 (as claimed): when in a run of run_all_scrapers the store fails while
\* it persists an occurrence of one source, every listing of the other
\* sources of the run is persisted, and the rows stored before the run stay
\* as they were.
C23_StoreFailureIsolation ==
    (result.op = "run_all_scrapers" /\ ~last.ok) =>
        LET sources == result.args[1]
            failed == last.events[result.args[2]]
        IN  /\ \A k \in DOMAIN sources \ FailedAt(sources, batch, failed) :
                  \A i \in DOMAIN Offered(sources, batch, k) :
                      Persisted(Offered(sources, batch, k)[i])
            /\ \A m \in DOMAIN last.pre : last.pre[m] \in SeqSet(db)

====
